---- MODULE Spec2Model ----
(***************************************************************************)
(* ATRO-Lite server core: the Agent Supervisor (agentManager and           *)
(* pythonRunner), the Realtime Hub (routes.ts) and the Event Store part    *)
(* they write to.  Node runs one control flow: every action below is the   *)
(* code between two awaits (or one event handler up to its first await).   *)
(***************************************************************************)
EXTENDS Integers, Sequences, FiniteSets, TLC

\* ------------------------------------------------------------------ bounds
NumAgents == 1
MaxCmds == 2
MaxProcs == 2
MaxClients == 2
MaxPosts == 2
MaxLines == 2
NumKeys == 2
MaxHubCmds == 2
NumActions == 2
MaxStoreOps == 3
MaxCacheOps == 3
MaxTicks == 2

AgentIds == 1..NumAgents
CmdIds == 1..MaxCmds
ProcIds == 1..MaxProcs
ClientIds == 1..MaxClients
HCmdIds == 1..MaxHubCmds

\* One PythonAgent object per (initializeAgents call, Agent): owner 0 is the
\* module-load call, owner k the call made by command k.
Insts == 1..((MaxCmds + 1) * NumAgents)
NoInst == 0
InstOf(owner, a) == owner * NumAgents + a
AgentOfInst(i) == ((i - 1) % NumAgents) + 1

AgentStatus == {"inactive", "active", "warning", "error", "stopped"}
AgentName(a) ==
  IF a = 1 THEN "Network Monitor" ELSE IF a = 2 THEN "Log Parser"
  ELSE IF a = 3 THEN "Response Agent" ELSE "Threat Intelligence"
SeedStatus(a) == IF a <= 2 THEN "active" ELSE IF a = 3 THEN "warning" ELSE "error"

VARIABLES
  moduleInit,    \* the module-load initializeAgents(): "wait" | "done"
  activeAgents,  \* agentManager's Map: Agent id -> PythonAgent (NoInst: no entry)
  isRunning,     \* PythonAgent.isRunning
  process,       \* PythonAgent.process (0: null)
  procs,         \* every ChildProcess ever spawned: [inst, state]
  cmds,          \* start/stop commands: [kind, pc, pos, inst, ov, proc]
  upd,           \* updateAgentStatus calls in flight: [agent, status, stage, k, p, ev]
  dbStatus,      \* Event Store: agents.status
  cacheStatus,   \* Context Cache: mcp:agent:<id>
  lastOp,        \* history: the last start/stop of an Agent that took effect and returned
  wsClients,     \* routes.ts wsClients, in push order
  readyState,    \* per connection: "none" | "OPEN" | "CLOSING" | "CLOSED"
  snap,          \* per connection: sendInitialData "none" | "pending" | "read" | "done"
  snapData,      \* per connection: what the storage reads of sendInitialData gave
  sent,          \* per connection: the messages handed to ws.send while it was open
  bcastLog,      \* history: the broadcasts the hub issued, in order
  escaped,       \* an error left its handler uncaught (the process terminates)
  posts,         \* number of REST create calls handled
  alerts,        \* Event Store: alerts
  logs,          \* Event Store: logs
  incidents,     \* Event Store: incidents
  stdout,        \* per worker: the bytes written and not yet read by the Supervisor
  consumed,      \* history, per worker: the bytes the Supervisor has read
  responseActions, \* Event Store: response_actions
  llmInsights,   \* Event Store: llm_insights
  hcmds,         \* toggle_response_action / analyze_log commands: [kind, pc, id, status, res]
  mem,           \* a MemStorage object: [tables, currentId]
  clock,         \* the time new Date() gives, counted in store calls
  ret,           \* the last call made on a store and what it returned
  sops,          \* number of store calls made directly
  mcp,           \* the Context Cache: the RedisMCP object, its client and what the client holds
  tnow,          \* the time, in seconds
  cret,          \* the last Context Cache call and what it returned
  cops,          \* number of Context Cache calls made
  ticks          \* number of times the time has advanced

supVars == <<moduleInit, activeAgents, isRunning, process, procs, cmds, upd,
             dbStatus, cacheStatus, lastOp>>
hubVars == <<wsClients, readyState, snap, snapData, sent, bcastLog, escaped, posts>>
storeVars == <<alerts, logs, incidents>>
outVars == <<stdout, consumed>>
cmdVars == <<responseActions, llmInsights, hcmds>>
memVars == <<mem, clock, ret, sops>>
cacheVars == <<mcp, tnow, cret, cops, ticks>>
extVars == <<cmdVars, memVars, cacheVars>>
vars == <<supVars, hubVars, storeVars, outVars, extVars>>

\* ------------------------------------------------------------- Realtime Hub
Msg(type, data) == [type |-> type, data |-> data]

InClients(ws, c) == \E j \in 1..Len(ws) : ws[j] = c

\* SendAll whose loop ends at the first client that is not OPEN (a send that throws).
SendAllUntilNotOpen(m) ==
  [c \in ClientIds |->
     IF \E j \in 1..Len(wsClients) :
          /\ wsClients[j] = c
          /\ \A i \in 1..j : readyState[wsClients[i]] = "OPEN"
     THEN Append(sent[c], m) ELSE sent[c]]

\* SendAll putting the message ahead of what the socket already queued.
SendAllNewestFirst(m) ==
  [c \in ClientIds |->
     IF InClients(wsClients, c) /\ readyState[c] = "OPEN" THEN <<m>> \o sent[c] ELSE sent[c]]

\* broadcast's forEach: every client of wsClients that is OPEN is sent the message.
SendAll(m) ==
  [c \in ClientIds |->
     IF InClients(wsClients, c) /\ readyState[c] = "OPEN" THEN Append(sent[c], m) ELSE sent[c]]

broadcast(type, data) ==
  /\ sent' = SendAll(Msg(type, data))
  /\ bcastLog' = Append(bcastLog, Msg(type, data))

\* sendInitialData's page sizes: storage.getAlerts(10), getIncidents(10), getLogs(20).
AlertPage == 10
IncidentPage == 10
LogPage == 20

\* ORDER BY timestamp DESC LIMIT n: every record modelled here is stamped when
\* it is created, so newest first is the reverse of the insertion order.
\* (for comparison) the same query without its LIMIT
RecentNoLimit(seq, n) == [j \in 1..Len(seq) |-> seq[Len(seq) + 1 - j]]

Recent(seq, n) ==
  [j \in 1..(IF Len(seq) < n THEN Len(seq) ELSE n) |-> seq[Len(seq) + 1 - j]]

InsightPage == 10

\* the six storage reads of sendInitialData; mcpStatus and llmStatus are
\* literals of the handler and carry no state
SnapshotData ==
  [agents |-> dbStatus, alerts |-> Recent(alerts, AlertPage),
   incidents |-> Recent(incidents, IncidentPage), logs |-> Recent(logs, LogPage),
   responseActions |-> responseActions, llmInsights |-> Recent(llmInsights, InsightPage)]

NoSnapshot ==
  [ok |-> FALSE, data |-> [agents |-> <<>>, alerts |-> <<>>, incidents |-> <<>>, logs |-> <<>>,
                           responseActions |-> <<>>, llmInsights |-> <<>>]]

\* ws.send(message) on one connection: queued only while the socket is OPEN.
WsSend(c, m) == [sent EXCEPT ![c] = IF readyState[c] = "OPEN" THEN Append(@, m) ELSE @]

\* wss.on('connection'): push the socket, start sendInitialData().
Connect(c) ==
  /\ ~escaped
  /\ readyState[c] = "none"
  /\ \A d \in 1..(c - 1) : readyState[d] # "none"
  /\ wsClients' = Append(wsClients, c)
  /\ readyState' = [readyState EXCEPT ![c] = "OPEN"]
  /\ snap' = [snap EXCEPT ![c] = "pending"]
  /\ UNCHANGED <<snapData, sent, bcastLog, escaped, posts>>
  /\ UNCHANGED <<supVars, storeVars, outVars, extVars>>

\* sendInitialData(): the storage answers the reads, or one of them fails.
SnapshotRead(c) ==
  /\ ~escaped
  /\ snap[c] = "pending"
  /\ snap' = [snap EXCEPT ![c] = "read"]
  /\ \E ok \in BOOLEAN :
       snapData' = [snapData EXCEPT ![c] = IF ok THEN [ok |-> TRUE, data |-> SnapshotData]
                                                 ELSE NoSnapshot]
  /\ UNCHANGED <<wsClients, readyState, sent, bcastLog, escaped, posts>>
  /\ UNCHANGED <<supVars, storeVars, outVars, extVars>>

\* sendInitialData() once the last read has settled: the snapshot, or, when a
\* read failed, the catch block's error message.
SnapshotDone(c) ==
  /\ ~escaped
  /\ snap[c] = "read"
  /\ snap' = [snap EXCEPT ![c] = "done"]
  /\ sent' = WsSend(c, IF snapData[c].ok THEN Msg("initial_data", snapData[c].data)
                                         ELSE Msg("error", [message |-> "Failed to load initial data"]))
  /\ UNCHANGED <<wsClients, readyState, snapData, bcastLog, escaped, posts>>
  /\ UNCHANGED <<supVars, storeVars, outVars, extVars>>

\* The peer starts the closing handshake, or the socket breaks: no longer OPEN.
SocketClosing(c) ==
  /\ ~escaped
  /\ readyState[c] = "OPEN"
  /\ readyState' = [readyState EXCEPT ![c] = "CLOSING"]
  /\ UNCHANGED <<wsClients, snap, snapData, sent, bcastLog, escaped, posts>>
  /\ UNCHANGED <<supVars, storeVars, outVars, extVars>>

\* ws.on('close'): the socket is dropped from wsClients.
OnClose(c) ==
  /\ ~escaped
  /\ readyState[c] \in {"OPEN", "CLOSING"}
  /\ readyState' = [readyState EXCEPT ![c] = "CLOSED"]
  /\ wsClients' = SelectSeq(wsClients, LAMBDA d : d # c)
  /\ UNCHANGED <<snap, snapData, sent, bcastLog, escaped, posts>>
  /\ UNCHANGED <<supVars, storeVars, outVars, extVars>>

\* The socket emits 'error' (a protocol-invalid frame from the peer): the
\* connection handler registers listeners for 'message' and 'close' only, so
\* the emitter throws and nothing catches it.
OnError(c) ==
  /\ ~escaped
  /\ readyState[c] \in {"OPEN", "CLOSING"}
  /\ escaped' = TRUE
  /\ UNCHANGED <<wsClients, readyState, snap, snapData, sent, bcastLog, posts>>
  /\ UNCHANGED <<supVars, storeVars, outVars, extVars>>

\* ws.on('message') for a message that is not JSON (JSON.parse throws inside
\* the try) or whose type matches no case of the switch.
OnMessageIgnored(c, m) ==
  /\ ~escaped
  /\ readyState[c] = "OPEN"
  /\ m \in {"malformed", "unknown_type"}
  /\ UNCHANGED <<hubVars, supVars, storeVars, outVars, extVars>>

\* ------------------------------------------------------------- Event Store
Has(r, f) == f \in DOMAIN r

NewStore == [logs |-> <<>>, alerts |-> <<>>, incidents |-> <<>>]
Store == [logs |-> logs, alerts |-> alerts, incidents |-> incidents]

\* DatabaseStorage.createLog: insert into logs (level, message, source NOT NULL).
createLog(st, ins) ==
  IF Has(ins, "level") /\ Has(ins, "message") /\ Has(ins, "source")
  THEN [st EXCEPT !.logs = Append(@, [id |-> Len(@) + 1, level |-> ins.level,
                                      message |-> ins.message, source |-> ins.source])]
  ELSE st

\* DatabaseStorage.createAlert: insert into alerts (severity, title,
\* description, source NOT NULL; status defaults to 'new').
createAlert(st, ins) ==
  IF Has(ins, "severity") /\ Has(ins, "title") /\ Has(ins, "source")
  THEN [st EXCEPT !.alerts = Append(@, [id |-> Len(@) + 1, severity |-> ins.severity,
                                        title |-> ins.title, source |-> ins.source,
                                        status |-> IF Has(ins, "status") THEN ins.status ELSE "new"])]
  ELSE st

\* DatabaseStorage.createIncident: insert into incidents (incident_key NOT NULL
\* UNIQUE, type and source NOT NULL; status defaults to 'open').  The insert
\* takes the columns of the table from the record: any other field is ignored.
createIncident(st, ins) ==
  IF /\ Has(ins, "incidentKey") /\ Has(ins, "type") /\ Has(ins, "source")
     /\ \A j \in 1..Len(st.incidents) : st.incidents[j].incidentKey # ins.incidentKey
  THEN [st EXCEPT !.incidents = Append(@, [id |-> Len(@) + 1, incidentKey |-> ins.incidentKey,
                                           type |-> ins.type, source |-> ins.source,
                                           status |-> IF Has(ins, "status") THEN ins.status ELSE "open"])]
  ELSE st

\* POST /api/alerts: 400 when the body fails insertAlertSchema, 500 when the
\* insert fails, else the Alert is created and broadcast as new_alert.
PostAlert(valid, dbOk, sev) ==
  /\ ~escaped
  /\ posts < MaxPosts
  /\ posts' = posts + 1
  /\ IF valid /\ dbOk
     THEN LET st == createAlert(Store, [severity |-> sev, title |-> "t", description |-> "d",
                                        source |-> "api"])
          IN /\ alerts' = st.alerts
             /\ broadcast("new_alert", st.alerts[Len(st.alerts)])
     ELSE UNCHANGED <<alerts, sent, bcastLog>>
  /\ UNCHANGED <<wsClients, readyState, snap, snapData, escaped, logs, incidents>>
  /\ UNCHANGED <<supVars, outVars, extVars>>

\* DatabaseStorage.initializeData: the seeded response actions.
SeedActionStatus(i) == IF i = 3 THEN "disabled" ELSE "enabled"
SeedActions == [i \in 1..NumActions |-> [id |-> i, status |-> SeedActionStatus(i)]]

\* select ... where id = <id>: the positions of the rows with that id.
Find(tbl, id) == {j \in 1..Len(tbl) : tbl[j].id = id}
\* .set(updates): the columns of the row that updates names take its values.
SetCols(row, updates) ==
  [f \in DOMAIN row |-> IF f \in DOMAIN updates THEN updates[f] ELSE row[f]]
\* update <table> set ... where id = <id>: the table afterwards.
UpdateRows(tbl, id, updates) ==
  [j \in 1..Len(tbl) |-> IF tbl[j].id = id THEN SetCols(tbl[j], updates) ELSE tbl[j]]

\* POST /api/logs: as POST /api/alerts, for a Log, broadcast as new_log.
PostLog(valid, dbOk, level) ==
  /\ ~escaped
  /\ posts < MaxPosts
  /\ posts' = posts + 1
  /\ IF valid /\ dbOk
     THEN LET st == createLog(Store, [level |-> level, message |-> <<"m">>, source |-> "api"])
          IN /\ logs' = st.logs
             /\ broadcast("new_log", st.logs[Len(st.logs)])
     ELSE UNCHANGED <<logs, sent, bcastLog>>
  /\ UNCHANGED <<wsClients, readyState, snap, snapData, escaped, alerts, incidents>>
  /\ UNCHANGED <<supVars, outVars, extVars>>

\* --------------------------------------------------------------- MemStorage
Kinds == {"agent", "alert", "incident", "log", "responseAction", "llmInsight"}
UpdateKinds == {"agent", "alert", "incident", "responseAction"}
Absent == [absent |-> TRUE]

\* {...row, ...updates}
Spread(row, updates) ==
  [f \in (DOMAIN row) \cup (DOMAIN updates) |-> IF f \in DOMAIN updates THEN updates[f] ELSE row[f]]

\* insertX.status || <default>, for the kinds that have a status.
DefaultStatus(kind) ==
  CASE kind = "agent" -> "inactive" [] kind = "alert" -> "new" [] kind = "incident" -> "open"
    [] OTHER -> "pending"
\* MemRecord with the submitted fields spread last.
MemRecordSubmittedLast(kind, ins, id, now) ==
  Spread([id |-> id, createdAt |-> now, status |-> DefaultStatus(kind), timestamp |-> now], ins)

\* The record createX builds: the submitted fields, then id and createdAt,
\* then the defaulted fields.
MemRecord(kind, ins, id, now) ==
  LET r1 == Spread(ins, [id |-> id, createdAt |-> now])
      r2 == IF kind \in UpdateKinds
            THEN Spread(r1, [status |-> IF Has(ins, "status") /\ ins.status # "" THEN ins.status
                                                                               ELSE DefaultStatus(kind)])
            ELSE r1
  IN IF kind \in {"agent", "responseAction"} THEN r2
     ELSE Spread(r2, [timestamp |-> IF Has(ins, "timestamp") THEN ins.timestamp ELSE now])

\* MemStorage.createX: const id = this.currentId++; this.xs.set(id, x)
memCreate(ms, kind, ins, now) ==
  [tables |-> [ms.tables EXCEPT ![kind] = (ms.currentId :> MemRecord(kind, ins, ms.currentId, now)) @@ @],
   currentId |-> ms.currentId + 1]

\* memUpdate storing the merged fields also when the id is unknown.
memUpsert(ms, kind, id, updates) ==
  [ms EXCEPT !.tables[kind] =
     (id :> (IF id \in DOMAIN @ THEN Spread(@[id], updates) ELSE updates)) @@ @]

\* MemStorage.updateX: nothing is stored unless the id is known.
memUpdate(ms, kind, id, updates) ==
  IF id \in DOMAIN ms.tables[kind]
  THEN [ms EXCEPT !.tables[kind] = (id :> Spread(@[id], updates)) @@ @]
  ELSE ms

\* new MemStorage(): the sample agents, then the sample response actions.
NewMem ==
  [tables |-> [kind \in Kinds |->
     CASE kind = "agent" ->
            [i \in 1..NumAgents |->
               MemRecord(kind, [name |-> AgentName(i), status |-> SeedStatus(i)], i, 0)]
       [] kind = "responseAction" ->
            [i \in (NumAgents + 1)..(NumAgents + NumActions) |->
               MemRecord(kind, [name |-> "action", status |-> SeedActionStatus(i - NumAgents)], i, 0)]
       [] OTHER -> <<>>],
   currentId |-> NumAgents + NumActions + 1]

NoRet == [op |-> "none", kind |-> "none", id |-> 0, value |-> Absent]

\* A caller invokes MemStorage.createX(ins).
MemCreate(kind, ins) ==
  /\ ~escaped
  /\ sops < MaxStoreOps
  /\ sops' = sops + 1
  /\ clock' = clock + 1
  /\ mem' = memCreate(mem, kind, ins, clock')
  /\ ret' = [op |-> "create", kind |-> kind, id |-> mem.currentId,
             value |-> mem'.tables[kind][mem.currentId]]
  /\ UNCHANGED <<supVars, hubVars, storeVars, outVars, cmdVars, cacheVars>>

\* A caller invokes MemStorage.updateX(id, updates).
MemUpdate(kind, id, updates) ==
  /\ ~escaped
  /\ sops < MaxStoreOps
  /\ sops' = sops + 1
  /\ mem' = memUpdate(mem, kind, id, updates)
  /\ ret' = [op |-> "update", kind |-> kind, id |-> id,
             value |-> IF id \in DOMAIN mem.tables[kind] THEN mem'.tables[kind][id] ELSE Absent]
  /\ UNCHANGED <<clock, supVars, hubVars, storeVars, outVars, cmdVars, cacheVars>>

\* Array.from(map.values()): the records in the order of their insertion,
\* which is the order of their ids.
RECURSIVE InsertionOrder(_)
InsertionOrder(tbl) ==
  IF DOMAIN tbl = {} THEN <<>>
  ELSE LET last == CHOOSE i \in DOMAIN tbl : \A j \in DOMAIN tbl : j <= i
       IN Append(InsertionOrder([i \in (DOMAIN tbl) \ {last} |-> tbl[i]]), tbl[last])

\* .sort((a, b) => b.timestamp - a.timestamp): newest first, records of equal
\* timestamp in the order they had (the sort is stable).
RECURSIVE InsertDesc(_, _)
InsertDesc(sorted, r) ==
  IF sorted = <<>> THEN <<r>>
  ELSE IF Head(sorted).timestamp >= r.timestamp THEN <<Head(sorted)>> \o InsertDesc(Tail(sorted), r)
  ELSE <<r>> \o sorted
RECURSIVE SortDesc(_)
SortDesc(seq) ==
  IF seq = <<>> THEN <<>> ELSE InsertDesc(SortDesc(SubSeq(seq, 1, Len(seq) - 1)), seq[Len(seq)])

ListKinds == {"alert", "incident", "log", "llmInsight"}
\* the limit argument: not given, or a number
Limits == {[given |-> FALSE, n |-> 0]} \cup {[given |-> TRUE, n |-> n] : n \in 0..2}

\* MemStorage.getAlerts / getIncidents / getLogs / getLlmInsights (limit):
\* sort, then `limit ? sorted.slice(0, limit) : sorted`
memList(ms, kind, limit) ==
  LET sorted == SortDesc(InsertionOrder(ms.tables[kind]))
  IN IF limit.given /\ limit.n # 0
     THEN SubSeq(sorted, 1, IF limit.n < Len(sorted) THEN limit.n ELSE Len(sorted))
     ELSE sorted

\* A caller invokes MemStorage.getX(limit).
MemList(kind, limit) ==
  /\ ~escaped
  /\ sops < MaxStoreOps
  /\ sops' = sops + 1
  /\ ret' = [op |-> IF limit.given THEN "list" ELSE "listAll", kind |-> kind, id |-> limit.n,
             value |-> [list |-> memList(mem, kind, limit)]]
  /\ UNCHANGED <<mem, clock, supVars, hubVars, storeVars, outVars, cmdVars, cacheVars>>

\* A caller invokes DatabaseStorage.updateAlert / updateIncident /
\* updateResponseAction (id, updates): update ... where id = <id> returning *.
DbUpdate(kind, id, updates) ==
  /\ ~escaped
  /\ sops < MaxStoreOps
  /\ sops' = sops + 1
  /\ LET tbl == CASE kind = "alert" -> alerts [] kind = "incident" -> incidents
                  [] OTHER -> responseActions
         new == UpdateRows(tbl, id, updates)
     IN /\ alerts' = IF kind = "alert" THEN new ELSE alerts
        /\ incidents' = IF kind = "incident" THEN new ELSE incidents
        /\ responseActions' = IF kind = "responseAction" THEN new ELSE responseActions
        /\ ret' = [op |-> "dbupdate", kind |-> kind, id |-> id,
                   value |-> IF Find(tbl, id) # {} THEN new[CHOOSE j \in Find(tbl, id) : TRUE]
                                                   ELSE Absent]
  /\ UNCHANGED <<logs, llmInsights, hcmds, mem, clock, supVars, hubVars, outVars, cacheVars>>

\* ------------------------------------------------------------ hub commands
NoRes == [id |-> 0]
IdleHCmd == [kind |-> "none", pc |-> "idle", id |-> 0, status |-> "", res |-> NoRes]

\* The updateResponseAction of a toggle that also resets the other rows.
ToggleUpdateAllRows(h, dbOk) ==
  /\ ~escaped
  /\ hcmds[h].kind = "toggle" /\ hcmds[h].pc = "update"
  /\ IF dbOk
     THEN /\ responseActions' = [j \in 1..Len(responseActions) |->
                                   [responseActions[j] EXCEPT !.status = hcmds[h].status]]
          /\ hcmds' = [hcmds EXCEPT ![h].pc = "bcast",
                                    ![h].res = responseActions'[CHOOSE j \in Find(responseActions, hcmds[h].id) : TRUE]]
     ELSE /\ hcmds' = [hcmds EXCEPT ![h].pc = "failed"]
          /\ UNCHANGED responseActions
  /\ UNCHANGED <<llmInsights, supVars, hubVars, storeVars, outVars, memVars, cacheVars>>

\* ws.on('message') case 'toggle_response_action', up to its first await:
\* nothing is done unless parsed.id and parsed.status are both truthy.
IssueToggle(h, c, id, status) ==
  /\ ~escaped
  /\ readyState[c] = "OPEN"
  /\ hcmds[h].pc = "idle"
  /\ \A g \in 1..(h - 1) : hcmds[g].pc # "idle"
  /\ hcmds' = [hcmds EXCEPT ![h] = [kind |-> "toggle",
                                   pc |-> IF id # 0 /\ status # "" THEN "get" ELSE "done",
                                   id |-> id, status |-> status, res |-> NoRes]]
  /\ UNCHANGED <<responseActions, llmInsights, supVars, hubVars, storeVars, outVars, memVars, cacheVars>>

\* storage.getResponseAction(parsed.id) returns: the update is issued only
\* for an existing action; a failed read is caught by the handler.
ToggleGot(h, dbOk) ==
  /\ ~escaped
  /\ hcmds[h].kind = "toggle" /\ hcmds[h].pc = "get"
  /\ hcmds' = [hcmds EXCEPT ![h].pc = IF ~dbOk THEN "failed"
                                     ELSE IF Find(responseActions, hcmds[h].id) # {} THEN "update"
                                     ELSE "done"]
  /\ UNCHANGED <<responseActions, llmInsights, supVars, hubVars, storeVars, outVars, memVars, cacheVars>>

\* storage.updateResponseAction(parsed.id, {status}) runs in the database and
\* yields the updated row.
ToggleUpdate(h, dbOk) ==
  /\ ~escaped
  /\ hcmds[h].kind = "toggle" /\ hcmds[h].pc = "update"
  /\ IF dbOk
     THEN /\ responseActions' = UpdateRows(responseActions, hcmds[h].id, [status |-> hcmds[h].status])
          /\ hcmds' = [hcmds EXCEPT ![h].pc = "bcast",
                                    ![h].res = responseActions'[CHOOSE j \in Find(responseActions, hcmds[h].id) : TRUE]]
     ELSE /\ hcmds' = [hcmds EXCEPT ![h].pc = "failed"]
          /\ UNCHANGED responseActions
  /\ UNCHANGED <<llmInsights, supVars, hubVars, storeVars, outVars, memVars, cacheVars>>

\* broadcast('response_action_updated', updated)
ToggleBroadcast(h) ==
  /\ ~escaped
  /\ hcmds[h].kind = "toggle" /\ hcmds[h].pc = "bcast"
  /\ broadcast("response_action_updated", hcmds[h].res)
  /\ hcmds' = [hcmds EXCEPT ![h].pc = "done"]
  /\ UNCHANGED <<wsClients, readyState, snap, snapData, escaped, posts>>
  /\ UNCHANGED <<responseActions, llmInsights, supVars, storeVars, outVars, memVars, cacheVars>>

\* What the classifier call can do: the request rejects (timeout, quota,
\* network), the response has no choices, its content is not JSON, or it is a
\* JSON object with all, some or none of the fields asked for.
LlmOutcomes == {"reject", "no_choices", "not_json", "empty_object", "no_analysis", "full"}
LlmThrows(o) == o \in {"reject", "no_choices", "not_json"}
\* JSON.parse(response.choices[0].message.content); confidence in hundredths.
LlmResult(o) ==
  CASE o = "full" -> [severity |-> "high", analysis |-> "a", recommendation |-> "r", confidence |-> 70]
    [] o = "no_analysis" -> [severity |-> "low", confidence |-> 150]
    [] OTHER -> [other |-> 0]
LlmFallback ==
  [severity |-> "medium",
   analysis |-> "Failed to analyze threat with LLM. API may be unavailable.",
   recommendation |-> "Please check API credentials and try again.",
   confidence |-> 0]
\* The per-field defaults of a response that parsed.
LlmFromResult(result) ==
  LET conf == IF Has(result, "confidence") /\ result.confidence # 0 THEN result.confidence ELSE 50
      low == IF conf < 100 THEN conf ELSE 100
  IN [severity |-> IF Has(result, "severity") THEN result.severity ELSE "medium",
      analysis |-> IF Has(result, "analysis") THEN result.analysis ELSE "No analysis provided",
      recommendation |-> IF Has(result, "recommendation") THEN result.recommendation
                                                           ELSE "No recommendation provided",
      confidence |-> IF low > 0 THEN low ELSE 0]

\* analyzeThreatWithLLM without its catch block: a failed call is taken for an empty response.
analyzeThreatWithLLMNoCatch(o) == LlmFromResult(LlmResult(IF LlmThrows(o) THEN "empty_object" ELSE o))

analyzeThreatWithLLM(o) == IF LlmThrows(o) THEN LlmFallback ELSE LlmFromResult(LlmResult(o))

\* DatabaseStorage.createLlmInsight: insert into llm_insights (analysis and
\* severity NOT NULL).
createLlmInsight(tbl, ins) ==
  IF Has(ins, "analysis") /\ Has(ins, "severity")
  THEN Append(tbl, [id |-> Len(tbl) + 1, analysis |-> ins.analysis, severity |-> ins.severity,
                    recommendation |-> ins.recommendation, logId |-> ins.logId])
  ELSE tbl

\* ws.on('message') case 'analyze_log', up to its first await.
IssueAnalyze(h, c, logId) ==
  /\ ~escaped
  /\ readyState[c] = "OPEN"
  /\ hcmds[h].pc = "idle"
  /\ \A g \in 1..(h - 1) : hcmds[g].pc # "idle"
  /\ hcmds' = [hcmds EXCEPT ![h] = [kind |-> "analyze", pc |-> IF logId # 0 THEN "getlog" ELSE "done",
                                   id |-> logId, status |-> "", res |-> NoRes]]
  /\ UNCHANGED <<responseActions, llmInsights, supVars, hubVars, storeVars, outVars, memVars, cacheVars>>

\* storage.getLog(parsed.logId) returns.
AnalyzeGotLog(h, dbOk) ==
  /\ ~escaped
  /\ hcmds[h].kind = "analyze" /\ hcmds[h].pc = "getlog"
  /\ hcmds' = [hcmds EXCEPT ![h].pc = IF ~dbOk THEN "failed"
                                     ELSE IF Find(logs, hcmds[h].id) # {} THEN "llm" ELSE "done"]
  /\ UNCHANGED <<responseActions, llmInsights, supVars, hubVars, storeVars, outVars, memVars, cacheVars>>

\* analyzeThreatWithLLM(log.message) returns; status keeps what the call did.
AnalyzeLlm(h, o) ==
  /\ ~escaped
  /\ hcmds[h].kind = "analyze" /\ hcmds[h].pc = "llm"
  /\ hcmds' = [hcmds EXCEPT ![h].pc = "create", ![h].status = o, ![h].res = analyzeThreatWithLLM(o)]
  /\ UNCHANGED <<responseActions, llmInsights, supVars, hubVars, storeVars, outVars, memVars, cacheVars>>

\* storage.createLlmInsight({analysis, severity, recommendation, metadata: {logId}})
AnalyzeCreate(h, dbOk) ==
  /\ ~escaped
  /\ hcmds[h].kind = "analyze" /\ hcmds[h].pc = "create"
  /\ IF dbOk
     THEN /\ llmInsights' = createLlmInsight(llmInsights,
                               [analysis |-> hcmds[h].res.analysis, severity |-> hcmds[h].res.severity,
                                recommendation |-> hcmds[h].res.recommendation, logId |-> hcmds[h].id])
          /\ hcmds' = [hcmds EXCEPT ![h].pc = "bcast", ![h].res = llmInsights'[Len(llmInsights')]]
     ELSE /\ hcmds' = [hcmds EXCEPT ![h].pc = "failed"]
          /\ UNCHANGED llmInsights
  /\ UNCHANGED <<responseActions, supVars, hubVars, storeVars, outVars, memVars, cacheVars>>

\* broadcast('new_insight', insight)
AnalyzeBroadcast(h) ==
  /\ ~escaped
  /\ hcmds[h].kind = "analyze" /\ hcmds[h].pc = "bcast"
  /\ broadcast("new_insight", hcmds[h].res)
  /\ hcmds' = [hcmds EXCEPT ![h].pc = "done"]
  /\ UNCHANGED <<wsClients, readyState, snap, snapData, escaped, posts>>
  /\ UNCHANGED <<responseActions, llmInsights, supVars, storeVars, outVars, memVars, cacheVars>>

\* ----------------------------------------------------------- worker output
\* Worker output is a sequence of characters: "x" is a character of plain
\* text, "\n" the line end, and "{", <tag>, "}" spell a JSON object, the tag
\* standing for its members.
ObjTags == {"log", "log:warning", "alert", "alert:critical", "incident", "other"}
Lines == {<<"x">>, <<"{", "x">>} \cup {<<"{", t, "}">> : t \in ObjTags}

RECURSIVE TrimLeft(_), TrimRight(_)
TrimLeft(s) == IF s # <<>> /\ Head(s) = "\n" THEN TrimLeft(Tail(s)) ELSE s
TrimRight(s) == IF s # <<>> /\ s[Len(s)] = "\n" THEN TrimRight(SubSeq(s, 1, Len(s) - 1)) ELSE s
\* String.prototype.trim
trim(s) == TrimRight(TrimLeft(s))

\* JSON.parse(output) succeeds on one complete object, white space around it allowed.
JsonParses(output) ==
  LET t == trim(output) IN Len(t) = 3 /\ t[1] = "{" /\ t[3] = "}" /\ t[2] \in ObjTags

JsonParse(output) ==
  LET tag == trim(output)[2] IN
  CASE tag = "log" -> [type |-> "log", message |-> <<"m">>]
    [] tag = "log:warning" -> [type |-> "log", level |-> "warning", message |-> <<"m">>]
    [] tag = "alert" -> [type |-> "alert", title |-> "X", description |-> "Y"]
    [] tag = "alert:critical" ->
         [type |-> "alert", severity |-> "critical", title |-> "X", description |-> "Y"]
    [] tag = "incident" -> [type |-> "incident", incidentType |-> "malware"]
    [] OTHER -> [type |-> "metric"]

\* PythonAgent.handleAgentOutput(output) on the Event Store st; rnd is the
\* number Math.random() gives the incident key INC-<rnd>.
handleAgentOutput(st, agentName, output, rnd) ==
  IF trim(output) = <<>> THEN st
  ELSE IF Head(trim(output)) = "{"
  THEN IF ~JsonParses(output) THEN st
       ELSE LET data == JsonParse(output) IN
            CASE data.type = "log" ->
                   createLog(st, [level |-> IF Has(data, "level") THEN data.level ELSE "info",
                                  message |-> data.message, source |-> agentName])
              [] data.type = "alert" ->
                   createAlert(st, [severity |-> IF Has(data, "severity") THEN data.severity
                                                                           ELSE "medium",
                                    title |-> data.title, description |-> data.description,
                                    source |-> agentName, status |-> "new"])
              [] data.type = "incident" ->
                   createIncident(st, [incidentId |-> rnd, type |-> data.incidentType,
                                       status |-> "open", source |-> agentName])
              [] OTHER -> st
  ELSE createLog(st, [level |-> "info", message |-> output, source |-> agentName])

NumLines(s) == Cardinality({j \in 1..Len(s) : s[j] = "\n"})

\* A running worker prints one more line.
WorkerWrite(p, line) ==
  /\ ~escaped
  /\ p \in 1..Len(procs)
  /\ procs[p].state = "running"
  /\ NumLines(consumed[p] \o stdout[p]) < MaxLines
  /\ stdout' = [stdout EXCEPT ![p] = @ \o line \o <<"\n">>]
  /\ UNCHANGED <<consumed, supVars, hubVars, storeVars, extVars>>

\* process.stdout.on('data'): the next n characters arrive as one chunk.
StdoutData(p, n, rnd) ==
  /\ ~escaped
  /\ p \in 1..Len(procs)
  /\ n \in 1..Len(stdout[p])
  /\ LET chunk == SubSeq(stdout[p], 1, n)
         st == handleAgentOutput(Store, AgentName(AgentOfInst(procs[p].inst)), chunk, rnd)
     IN /\ logs' = st.logs
        /\ alerts' = st.alerts
        /\ incidents' = st.incidents
        /\ stdout' = [stdout EXCEPT ![p] = SubSeq(@, n + 1, Len(@))]
        /\ consumed' = [consumed EXCEPT ![p] = @ \o chunk]
  /\ UNCHANGED <<supVars, hubVars, extVars>>

\* -------------------------------------------------------- Agent Supervisor
IdleCmd == [kind |-> "none", pc |-> "idle", pos |-> 0, inst |-> NoInst, ov |-> FALSE, proc |-> 0]

InFlight(k) == cmds[k].pc \notin {"idle", "done", "failed"}

\* History kept with a command: it arrived while another command was in flight.
Overlaps(k) ==
  IF cmds[k].pc = "idle" THEN \E j \in CmdIds \ {k} : InFlight(j) ELSE cmds[k].ov

MapEmpty(aa) == \A a \in AgentIds : aa[a] = NoInst

\* initializeAgents, after storage.getAgents() resolved: one new PythonAgent per Agent.
Populate(owner) == [a \in AgentIds |-> InstOf(owner, a)]

\* Acts with start()'s isRunning check left out.
ActsStartUnguarded(kind, i) ==
  IF kind = "start" THEN TRUE ELSE isRunning[i] /\ process[i] # 0

\* Acts with stop()'s check of isRunning and process left out.
ActsStopUnguarded(kind, i) ==
  IF kind = "start" THEN ~isRunning[i] ELSE TRUE

\* start() and stop() return at once (a resolved promise) unless they act.
Acts(kind, i) ==
  IF kind = "start" THEN ~isRunning[i] ELSE isRunning[i] /\ process[i] # 0

\* The for..of loop of startAgents/stopAgents from entry `from` on: the first
\* entry whose call does not return at once, NumAgents + 1 if there is none.
NextPos(kind, from, aa) ==
  IF MapEmpty(aa) \/ \A q \in from..NumAgents : ~Acts(kind, aa[q])
  THEN NumAgents + 1
  ELSE CHOOSE q \in from..NumAgents :
         /\ Acts(kind, aa[q])
         /\ \A r \in from..(q - 1) : ~Acts(kind, aa[r])

Update(a, status, k, p, ev) ==
  [agent |-> a, status |-> status, stage |-> "db", k |-> k, p |-> p, ev |-> ev]

\* PythonAgent.start() on an object that is not running, up to its await.
start(k, a, i, u0) ==
  \E outcome \in {"ok", "async_fail", "throw"} :
    IF outcome = "throw"
    THEN \* spawn threw: the catch block
         /\ isRunning' = [isRunning EXCEPT ![i] = FALSE]
         /\ upd' = u0 \cup {Update(a, "error", k, 0, "call")}
         /\ UNCHANGED <<process, procs, lastOp>>
    ELSE /\ Len(procs) < MaxProcs
         /\ procs' = Append(procs, [inst |-> i,
                                    state |-> IF outcome = "ok" THEN "running" ELSE "failed"])
         /\ process' = [process EXCEPT ![i] = Len(procs) + 1]
         /\ isRunning' = [isRunning EXCEPT ![i] = TRUE]
         /\ upd' = u0 \cup {Update(a, "active", k, 0, "call")}
         /\ lastOp' = [lastOp EXCEPT ![a] = "start"]

\* PythonAgent.stop() on a running object, up to its await: SIGTERM, then the timer.
stop(k, a, i, u0) ==
  /\ upd' = u0
  /\ UNCHANGED <<isRunning, process, procs, lastOp>>

\* startAgents/stopAgents of command k continue their loop at entry `from`.
RunLoop(k, kind, from, aa, u0) ==
  LET q == NextPos(kind, from, aa) IN
  /\ activeAgents' = aa
  /\ IF q > NumAgents
     THEN \* inst stays NoInst when no call of this loop had anything to do
          /\ cmds' = [cmds EXCEPT ![k] = [kind |-> kind, pc |-> "read", pos |-> q,
                                          inst |-> IF from = 1 THEN NoInst ELSE cmds[k].inst,
                                          ov |-> Overlaps(k), proc |-> 0]]
          /\ upd' = u0
          /\ UNCHANGED <<isRunning, process, procs, lastOp>>
     ELSE /\ cmds' = [cmds EXCEPT ![k] = [kind |-> kind,
                                          pc |-> IF kind = "start" THEN "upd_wait" ELSE "grace",
                                          pos |-> q, inst |-> aa[q], ov |-> Overlaps(k),
                                          \* history: this.process as stop() found it
                                          proc |-> IF kind = "stop" THEN process[aa[q]] ELSE 0]]
          /\ IF kind = "start" THEN start(k, q, aa[q], u0) ELSE stop(k, q, aa[q], u0)

\* The module-load initializeAgents() gets its Agents and fills the map.
ModuleInitDone ==
  /\ ~escaped
  /\ moduleInit = "wait"
  /\ moduleInit' = "done"
  /\ activeAgents' = Populate(0)
  /\ UNCHANGED <<isRunning, process, procs, cmds, upd, dbStatus, cacheStatus, lastOp>>
  /\ UNCHANGED <<hubVars, storeVars, outVars, extVars>>

\* A start_agents/stop_agents message or POST /api/agents/start|stop arrives.
IssueCmd(k, kind) ==
  /\ ~escaped
  /\ cmds[k].pc = "idle"
  /\ \A j \in 1..(k - 1) : cmds[j].pc # "idle"
  /\ IF kind = "start" /\ MapEmpty(activeAgents)
     THEN \* startAgents: activeAgents.size === 0, so initializeAgents(): clear, await getAgents
          /\ cmds' = [cmds EXCEPT ![k] = [kind |-> kind, pc |-> "init_wait", pos |-> 0,
                                          inst |-> NoInst, ov |-> Overlaps(k), proc |-> 0]]
          /\ activeAgents' = [a \in AgentIds |-> NoInst]
          /\ UNCHANGED <<isRunning, process, procs, upd, lastOp>>
     ELSE RunLoop(k, kind, 1, activeAgents, upd)
  /\ UNCHANGED <<moduleInit, dbStatus, cacheStatus>>
  /\ UNCHANGED <<hubVars, storeVars, outVars, extVars>>

\* initializeAgents() called by startAgents of command k resumes, then the loop starts.
InitDone(k) ==
  /\ ~escaped
  /\ cmds[k].pc = "init_wait"
  /\ RunLoop(k, "start", 1, [a \in AgentIds |-> InstOf(k, a)], upd)
  /\ UNCHANGED <<moduleInit, dbStatus, cacheStatus>>
  /\ UNCHANGED <<hubVars, storeVars, outVars, extVars>>

\* updateAgentStatus: storage.updateAgent takes effect.
UpdDb(u) ==
  /\ ~escaped
  /\ u \in upd /\ u.stage = "db"
  /\ dbStatus' = [dbStatus EXCEPT ![u.agent] = u.status]
  /\ upd' = (upd \ {u}) \cup {[u EXCEPT !.stage = "cache"]}
  /\ UNCHANGED <<moduleInit, activeAgents, isRunning, process, procs, cmds, cacheStatus, lastOp>>
  /\ UNCHANGED <<hubVars, storeVars, outVars, extVars>>

\* updateAgentStatus: redis.updateAgentStatus takes effect and the call returns;
\* a start()/stop() that awaited it returns too and its loop goes on.
UpdCache(u) ==
  /\ ~escaped
  /\ u \in upd /\ u.stage = "cache"
  /\ cacheStatus' = [cacheStatus EXCEPT ![u.agent] = u.status]
  /\ IF u.k = 0
     THEN /\ upd' = upd \ {u}
          /\ UNCHANGED <<activeAgents, isRunning, process, procs, cmds, lastOp>>
     ELSE /\ cmds[u.k].pc = "upd_wait"
          /\ RunLoop(u.k, cmds[u.k].kind, cmds[u.k].pos + 1, activeAgents, upd \ {u})
  /\ UNCHANGED <<moduleInit, dbStatus>>
  /\ UNCHANGED <<hubVars, storeVars, outVars, extVars>>

\* stop() resumes after its one-second timer.
GraceEnd(k) ==
  LET i == cmds[k].inst
      a == cmds[k].pos
      p == process[i]
  IN
  /\ ~escaped
  /\ cmds[k].pc = "grace"
  /\ IF p = 0
     THEN \* this.process is null by now: this.process.pid throws, stop() returns false
          RunLoop(k, "stop", a + 1, activeAgents, upd)
     ELSE \* kill(pid, 0) finds the process only while it is alive: SIGKILL
          /\ procs' = [procs EXCEPT ![p].state = IF @ = "running" THEN "exited" ELSE @]
          /\ isRunning' = [isRunning EXCEPT ![i] = FALSE]
          /\ process' = [process EXCEPT ![i] = 0]
          /\ upd' = upd \cup {Update(a, "stopped", k, 0, "call")}
          /\ cmds' = [cmds EXCEPT ![k].pc = "upd_wait"]
          /\ lastOp' = [lastOp EXCEPT ![a] = "stop"]
          /\ UNCHANGED activeAgents
  /\ UNCHANGED <<moduleInit, dbStatus, cacheStatus>>
  /\ UNCHANGED <<hubVars, storeVars, outVars, extVars>>

\* A worker process ends: by itself, or on the SIGTERM it was sent.
ProcExit(p) ==
  /\ ~escaped
  /\ p \in 1..Len(procs)
  /\ procs[p].state = "running"
  /\ procs' = [procs EXCEPT ![p].state = "exited"]
  /\ UNCHANGED <<moduleInit, activeAgents, isRunning, process, cmds, upd, dbStatus, cacheStatus, lastOp>>
  /\ UNCHANGED <<hubVars, storeVars>>
  /\ UNCHANGED <<stdout, consumed, extVars>>

\* OnProcessEvent with the isRunning reset left out.
OnProcessEventKeepsRunning(p, ev) ==
  /\ upd' = upd \cup {Update(AgentOfInst(procs[p].inst), "error", 0, p, ev)}
  /\ UNCHANGED isRunning

\* The 'close' and 'error' handlers registered by start().
OnProcessEvent(p, ev) ==
  LET i == procs[p].inst IN
  /\ isRunning' = [isRunning EXCEPT ![i] = FALSE]
  /\ upd' = upd \cup {Update(AgentOfInst(i), "error", 0, p, ev)}

\* The launch failed: the 'error' event ('close' follows it).
ProcError(p) ==
  /\ ~escaped
  /\ p \in 1..Len(procs)
  /\ procs[p].state = "failed"
  /\ procs' = [procs EXCEPT ![p].state = "exited"]
  /\ OnProcessEvent(p, "error")
  /\ UNCHANGED <<moduleInit, activeAgents, process, cmds, dbStatus, cacheStatus, lastOp>>
  /\ UNCHANGED <<hubVars, storeVars, outVars, extVars>>

\* The 'close' event of a process that has ended.
ProcClose(p) ==
  /\ ~escaped
  /\ p \in 1..Len(procs)
  /\ procs[p].state = "exited"
  /\ stdout[p] = <<>>
  /\ procs' = [procs EXCEPT ![p].state = "closed"]
  /\ OnProcessEvent(p, "close")
  /\ UNCHANGED <<moduleInit, activeAgents, process, cmds, dbStatus, cacheStatus, lastOp>>
  /\ UNCHANGED <<hubVars, storeVars, outVars, extVars>>

\* ReadDone that skips the broadcast when an earlier command has already sent one.
ReadDoneOncePerStatus(k) ==
  /\ ~escaped
  /\ cmds[k].pc = "read"
  /\ cmds' = [cmds EXCEPT ![k].pc = "done"]
  /\ IF bcastLog = <<>> THEN broadcast("agents_status", [agents |-> dbStatus])
                         ELSE UNCHANGED <<sent, bcastLog>>
  /\ UNCHANGED <<moduleInit, activeAgents, isRunning, process, procs, upd, dbStatus, cacheStatus, lastOp>>
  /\ UNCHANGED <<wsClients, readyState, snap, snapData, escaped, posts>>
  /\ UNCHANGED <<storeVars, outVars, extVars>>

\* The command handler after startAgents()/stopAgents():
\* broadcast('agents_status', await storage.getAgents()), inside the handler's try.
ReadDone(k) ==
  /\ ~escaped
  /\ cmds[k].pc = "read"
  /\ \E ok \in BOOLEAN :
       IF ok
       THEN /\ broadcast("agents_status", [agents |-> dbStatus])
            /\ cmds' = [cmds EXCEPT ![k].pc = "done"]
       ELSE /\ cmds' = [cmds EXCEPT ![k].pc = "failed"]
            /\ UNCHANGED <<sent, bcastLog>>
  /\ UNCHANGED <<moduleInit, activeAgents, isRunning, process, procs, upd, dbStatus, cacheStatus, lastOp>>
  /\ UNCHANGED <<wsClients, readyState, snap, snapData, escaped, posts>>
  /\ UNCHANGED <<storeVars, outVars, extVars>>

\* ------------------------------------------------------ message dispatch
\* switch (parsed.type): the case a message type selects; there is no default.
KnownTypes == {"start_agents", "stop_agents", "toggle_response_action", "analyze_log"}
UnknownTypes == {"ping", "undefined"}

\* (for comparison) a switch whose default falls into the toggle case
CaseOfDefaultToggle(type) ==
  CASE type = "start_agents" -> "start"
    [] type = "stop_agents" -> "stop"
    [] type = "analyze_log" -> "analyze"
    [] OTHER -> "toggle"

CaseOf(type) ==
  CASE type = "start_agents" -> "start"
    [] type = "stop_agents" -> "stop"
    [] type = "toggle_response_action" -> "toggle"
    [] type = "analyze_log" -> "analyze"
    [] OTHER -> "none"

\* ws.on('message') for a parsed message, up to the first await of its case.
\* A message that selects no case ends the handler at once; the slot h only
\* records that the message was received.
OnMessage(h, k, c, type, id, status) ==
  /\ readyState[c] = "OPEN"
  /\ CASE CaseOf(type) = "toggle" -> IssueToggle(h, c, id, status)
       [] CaseOf(type) = "analyze" -> IssueAnalyze(h, c, id)
       [] CaseOf(type) \in {"start", "stop"} -> IssueCmd(k, CaseOf(type))
       [] OTHER ->
            /\ ~escaped
            /\ hcmds[h].pc = "idle"
            /\ \A g \in 1..(h - 1) : hcmds[g].pc # "idle"
            /\ hcmds' = [hcmds EXCEPT ![h] = [kind |-> "ignored", pc |-> "done", id |-> 0,
                                             status |-> "", res |-> NoRes]]
            /\ UNCHANGED <<responseActions, llmInsights, supVars, hubVars, storeVars, outVars,
                           memVars, cacheVars>>

\* ------------------------------------------------------------ Context Cache
\* The singleton `redis` (a RedisMCP) and the client it holds.  mcp.link is the
\* state of the ioredis connection: "connecting" before the first 'connect',
\* "up" while it is established, "down" after it was lost.
contextPrefix == "mcp:context:"
agentStatusPrefix == "mcp:agent:"
ContextTtl == 86400
RetryCeiling == 10

CtxTypes == {"network_threat"}
CacheVals == {"v1", "v2"}
Channels == {"mcp:events", "mcp:alerts"}
Ttls == {0, 1}
CacheKeys == ({contextPrefix} \X CtxTypes) \cup ({agentStatusPrefix} \X {ToString(a) : a \in AgentIds})

NewStoreMap == [k \in CacheKeys |-> "nil"]

\* history, per key: when the time to live of the value last stored runs out
\* ({}: it has none)
NoDeadline == {}

\* new RedisMCP() with USE_MEMORY_FALLBACK unset
NewMcp ==
  [connected |-> FALSE, useMemoryFallback |-> FALSE, link |-> "connecting", retries |-> 0,
   store |-> NewStoreMap, timers |-> {}, eventHandlers |-> <<>>, queued |-> <<>>, delivered |-> <<>>,
   deadline |-> [k \in CacheKeys |-> NoDeadline],
   commits |-> 0,   \* history: how many times the client was replaced by a MemoryStore
   subs |-> <<>>,   \* history: the channel of every handler ever subscribed
   expected |-> <<>>]   \* history: per publish, one delivery for each handler subscribed to its channel

\* this.useMemoryFallback = true; this.client = new MemoryStore(); this.connected = true
SwitchToMemory(m) ==
  [m EXCEPT !.connected = TRUE, !.useMemoryFallback = TRUE, !.link = "down",
            !.store = NewStoreMap, !.timers = {}, !.eventHandlers = <<>>, !.queued = <<>>,
            !.deadline = [k \in CacheKeys |-> NoDeadline], !.commits = @ + 1]

\* ---- the client: a MemoryStore when useMemoryFallback, else the Redis server
\* get: a Redis key whose time to live has run out is not served
ClientGet(m, key, t) ==
  IF m.useMemoryFallback
  THEN m.store[key]
  ELSE IF \E tm \in m.timers : tm.key = key /\ tm.due <= t THEN "nil" ELSE m.store[key]

\* set: the Redis SET also discards the key's time to live; MemoryStore.set
\* leaves the timers already scheduled in place
ClientSet(m, key, v) ==
  IF m.useMemoryFallback
  THEN [m EXCEPT !.store[key] = v, !.deadline[key] = NoDeadline]
  ELSE [m EXCEPT !.store[key] = v, !.timers = {tm \in @ : tm.key # key}, !.deadline[key] = NoDeadline]

\* expire: MemoryStore schedules a setTimeout that deletes the key; Redis
\* replaces the key's time to live
ClientExpire(m, key, seconds, t) ==
  IF m.useMemoryFallback
  THEN [m EXCEPT !.timers = @ \cup {[key |-> key, due |-> t + seconds]},
                 !.deadline[key] = IF m.store[key] = "nil" THEN @ ELSE {t + seconds}]
  ELSE IF ClientGet(m, key, t) = "nil" THEN m
       ELSE [m EXCEPT !.timers = {tm \in @ : tm.key # key} \cup {[key |-> key, due |-> t + seconds]},
                      !.deadline[key] = {t + seconds}]

ClientKeys(m, prefix, t) ==
  {k \in CacheKeys : k[1] = prefix /\
                     (IF m.useMemoryFallback THEN m.store[k] # "nil" ELSE ClientGet(m, k, t) # "nil")}

RECURSIVE Deliveries(_, _, _)
Deliveries(handlers, channel, message) ==
  IF handlers = <<>> THEN <<>>
  ELSE (IF Head(handlers) = channel THEN <<[channel |-> channel, message |-> message]>> ELSE <<>>)
       \o Deliveries(Tail(handlers), channel, message)

ClientPublish(m, channel, message) ==
  [m EXCEPT !.delivered = @ \o Deliveries(m.eventHandlers, channel, message),
            !.expected = @ \o Deliveries(m.subs, channel, message)]

\* subscribe(channel) followed by client.on("message", ...)
ClientSubscribe(m, channel) ==
  [m EXCEPT !.eventHandlers = Append(@, channel), !.subs = Append(@, channel)]

\* ---- RedisMCP operations
CacheOps == {"storeContext", "getContext", "updateAgentStatus", "getAgentStatus",
             "publish", "subscribe", "getAllContexts", "getAllAgentStatuses"}

KeyOf(op, name) ==
  IF op \in {"storeContext", "getContext"} THEN <<contextPrefix, name>> ELSE <<agentStatusPrefix, name>>

Names(op) ==
  CASE op \in {"storeContext", "getContext"} -> CtxTypes
    [] op \in {"updateAgentStatus", "getAgentStatus"} -> {ToString(a) : a \in AgentIds}
    [] op \in {"publish", "subscribe"} -> Channels
    [] OTHER -> {"*"}

\* what the body of an operation does on a client that answers: [m, value]
\* value is the set of what was returned: {} for null, {} and no return value.
OnClient(m, op, name, v, t) ==
  CASE op = "storeContext" ->
         [m |-> ClientExpire(ClientSet(m, KeyOf(op, name), v), KeyOf(op, name), ContextTtl, t), value |-> {}]
    [] op = "updateAgentStatus" ->
         [m |-> ClientSet(m, KeyOf(op, name), v), value |-> {}]
    [] op \in {"getContext", "getAgentStatus"} ->
         [m |-> m, value |-> {ClientGet(m, KeyOf(op, name), t)} \ {"nil"}]
    [] op = "publish" -> [m |-> ClientPublish(m, name, v), value |-> {}]
    [] op = "subscribe" -> [m |-> ClientSubscribe(m, name), value |-> {}]
    [] op = "getAllContexts" ->
         [m |-> m, value |-> {<<k[2], ClientGet(m, k, t)>> : k \in ClientKeys(m, contextPrefix, t)}]
    [] op = "getAllAgentStatuses" ->
         [m |-> m, value |-> {<<k[2], ClientGet(m, k, t)>> : k \in ClientKeys(m, agentStatusPrefix, t)}]

NoCret == [op |-> "none", name |-> "none", value |-> {}, immediate |-> TRUE, established |-> FALSE]

\* one RedisMCP operation: `if (!this.connected) return`, then the body in a
\* try/catch.  On a Redis client whose connection is lost the command waits in
\* the client's offline queue and the call does not return until the
\* connection is back or the client gives the command up.
McpCall(m, op, name, v, t) ==
  IF ~m.connected
  THEN [m |-> m, value |-> {}, immediate |-> TRUE]
  ELSE IF m.useMemoryFallback \/ m.link = "up"
       THEN OnClient(m, op, name, v, t) @@ [immediate |-> TRUE]
       ELSE [m |-> [m EXCEPT !.queued = Append(@, [op |-> op, name |-> name, v |-> v])],
             value |-> {}, immediate |-> FALSE]

RECURSIVE Flush(_, _, _)
Flush(m, q, t) ==
  IF q = <<>> THEN m
  ELSE Flush(OnClient(m, Head(q).op, Head(q).name, Head(q).v, t).m, Tail(q), t)

\* ---- events
\* 'connect': the handler sets connected; the client sends its offline queue.
\* The Redis client is not closed when the MemoryStore replaces it, so it may
\* still connect afterwards: the handler then only sets connected again.
RedisConnect ==
  /\ mcp.link # "up"
  /\ mcp' = IF mcp.useMemoryFallback
            THEN [mcp EXCEPT !.connected = TRUE, !.link = "up"]
            ELSE Flush([mcp EXCEPT !.connected = TRUE, !.link = "up", !.retries = 0, !.queued = <<>>],
                       mcp.queued, tnow)
  /\ UNCHANGED <<tnow, cret, cops, ticks>>
  /\ UNCHANGED <<supVars, hubVars, storeVars, outVars, cmdVars, memVars>>

\* the connection is lost; no handler is registered for 'close' or 'end'
RedisClose ==
  /\ ~mcp.useMemoryFallback /\ mcp.link = "up"
  /\ mcp' = [mcp EXCEPT !.link = "down"]
  /\ UNCHANGED <<tnow, cret, cops, ticks>>
  /\ UNCHANGED <<supVars, hubVars, storeVars, outVars, cmdVars, memVars>>

\* 'error'
RedisError ==
  /\ ~mcp.useMemoryFallback
  /\ mcp' = SwitchToMemory(mcp)
  /\ UNCHANGED <<tnow, cret, cops, ticks>>
  /\ UNCHANGED <<supVars, hubVars, storeVars, outVars, cmdVars, memVars>>

\* retryStrategy(times), called before each reconnection attempt
RetryStrategy ==
  /\ ~mcp.useMemoryFallback /\ mcp.link # "up"
  /\ mcp.retries <= RetryCeiling
  /\ LET times == mcp.retries + 1 IN
       mcp' = IF times > RetryCeiling THEN SwitchToMemory([mcp EXCEPT !.retries = times])
              ELSE [mcp EXCEPT !.retries = times]
  /\ UNCHANGED <<tnow, cret, cops, ticks>>
  /\ UNCHANGED <<supVars, hubVars, storeVars, outVars, cmdVars, memVars>>

CacheCall(op, name, v) ==
  /\ cops < MaxCacheOps
  /\ cops' = cops + 1
  /\ LET r == McpCall(mcp, op, name, v, tnow) IN
       /\ mcp' = r.m
       /\ cret' = [op |-> op, name |-> name, value |-> r.value, immediate |-> r.immediate,
                   established |-> mcp.useMemoryFallback \/ mcp.link = "up"]
  /\ UNCHANGED <<tnow, ticks>>
  /\ UNCHANGED <<supVars, hubVars, storeVars, outVars, cmdVars, memVars>>

\* set(key, value) and expire(key, seconds) on the MemoryStore, awaited one
\* after the other
StoreSetEx(key, v, seconds) ==
  /\ cops < MaxCacheOps
  /\ mcp.useMemoryFallback
  /\ cops' = cops + 1
  /\ mcp' = ClientExpire(ClientSet(mcp, key, v), key, seconds, tnow)
  /\ cret' = [op |-> "set", name |-> key[2], value |-> {}, immediate |-> TRUE, established |-> TRUE]
  /\ UNCHANGED <<tnow, ticks>>
  /\ UNCHANGED <<supVars, hubVars, storeVars, outVars, cmdVars, memVars>>

\* the callback of a setTimeout scheduled by MemoryStore.expire
TimerFire(tm) ==
  /\ mcp.useMemoryFallback
  /\ tm \in mcp.timers /\ tm.due <= tnow
  /\ mcp' = [mcp EXCEPT !.store[tm.key] = "nil", !.timers = @ \ {tm}]
  /\ UNCHANGED <<tnow, cret, cops, ticks>>
  /\ UNCHANGED <<supVars, hubVars, storeVars, outVars, cmdVars, memVars>>

\* time passes, up to the next timer; a timer that is due runs first
Due(m) == {tm.due : tm \in m.timers}
Advance ==
  /\ ticks < MaxTicks
  /\ ~(mcp.useMemoryFallback /\ \E tm \in mcp.timers : tm.due <= tnow)
  /\ LET later == {d \in Due(mcp) : d > tnow} IN
       tnow' \in {tnow + 1} \cup {d \in later : \A e \in later : d <= e}
  /\ ticks' = ticks + 1
  /\ UNCHANGED <<mcp, cret, cops>>
  /\ UNCHANGED <<supVars, hubVars, storeVars, outVars, cmdVars, memVars>>

\* ---------------------------------------------------------------- behaviours
InitWith(al, lg, inc, ins) ==
  /\ moduleInit = "wait"
  /\ activeAgents = [a \in AgentIds |-> NoInst]
  /\ isRunning = [i \in Insts |-> FALSE]
  /\ process = [i \in Insts |-> 0]
  /\ procs = <<>>
  /\ cmds = [k \in CmdIds |-> IdleCmd]
  /\ upd = {}
  /\ dbStatus = [a \in AgentIds |-> SeedStatus(a)]
  /\ cacheStatus = [a \in AgentIds |-> "none"]
  /\ lastOp = [a \in AgentIds |-> "none"]
  /\ wsClients = <<>>
  /\ readyState = [c \in ClientIds |-> "none"]
  /\ snap = [c \in ClientIds |-> "none"]
  /\ snapData = [c \in ClientIds |-> NoSnapshot]
  /\ sent = [c \in ClientIds |-> <<>>]
  /\ bcastLog = <<>>
  /\ escaped = FALSE
  /\ posts = 0
  /\ alerts = al
  /\ logs = lg
  /\ incidents = inc
  /\ stdout = [p \in ProcIds |-> <<>>]
  /\ consumed = [p \in ProcIds |-> <<>>]
  /\ responseActions = SeedActions
  /\ llmInsights = ins
  /\ hcmds = [h \in HCmdIds |-> IdleHCmd]
  /\ mem = NewMem
  /\ clock = 0
  /\ ret = NoRet
  /\ sops = 0
  /\ mcp = NewMcp
  /\ tnow = 0
  /\ cret = NoCret
  /\ cops = 0
  /\ ticks = 0

Init == InitWith(<<>>, <<>>, <<>>, <<>>)

Supervisor ==
  \/ ModuleInitDone
  \/ \E k \in CmdIds, kind \in {"start", "stop"} : IssueCmd(k, kind)
  \/ \E k \in CmdIds : InitDone(k)
  \/ \E u \in upd : UpdDb(u)
  \/ \E u \in upd : UpdCache(u)
  \/ \E k \in CmdIds : GraceEnd(k)
  \/ \E p \in ProcIds : ProcExit(p)
  \/ \E p \in ProcIds : ProcError(p)
  \/ \E p \in ProcIds : ProcClose(p)
  \/ \E k \in CmdIds : ReadDone(k)

Next == Supervisor

\* The Supervisor and the start/stop commands of the hub.
Spec == Init /\ [][Next]_vars

HubNext ==
  \/ \E c \in ClientIds : Connect(c)
  \/ \E c \in ClientIds : SnapshotRead(c)
  \/ \E c \in ClientIds : SnapshotDone(c)
  \/ \E c \in ClientIds : SocketClosing(c)
  \/ \E c \in ClientIds : OnClose(c)
  \/ \E c \in ClientIds : OnError(c)
  \/ \E c \in ClientIds, m \in {"malformed", "unknown_type"} : OnMessageIgnored(c, m)
  \/ \E valid, dbOk \in BOOLEAN, sev \in {"low", "critical"} : PostAlert(valid, dbOk, sev)

\* The state once the module-load initializeAgents() and one start command
\* have run to their end and every worker was launched.
Started(cs) ==
  /\ moduleInit = "done"
  /\ activeAgents = Populate(0)
  /\ isRunning = [i \in Insts |-> i <= NumAgents]
  /\ process = [i \in Insts |-> IF i <= NumAgents THEN i ELSE 0]
  /\ procs = [a \in AgentIds |-> [inst |-> InstOf(0, a), state |-> "running"]]
  /\ cmds = cs
  /\ upd = {}
  /\ dbStatus = [a \in AgentIds |-> "active"]
  /\ cacheStatus = [a \in AgentIds |-> "active"]
  /\ lastOp = [a \in AgentIds |-> "start"]
  /\ wsClients = <<>>
  /\ readyState = [c \in ClientIds |-> "none"]
  /\ snap = [c \in ClientIds |-> "none"]
  /\ snapData = [c \in ClientIds |-> NoSnapshot]
  /\ sent = [c \in ClientIds |-> <<>>]
  /\ bcastLog = <<Msg("agents_status", [agents |-> [a \in AgentIds |-> "active"]])>>
  /\ escaped = FALSE
  /\ posts = 0
  /\ alerts = <<>>
  /\ logs = <<>>
  /\ incidents = <<>>
  /\ stdout = [p \in ProcIds |-> <<>>]
  /\ consumed = [p \in ProcIds |-> <<>>]
  /\ responseActions = SeedActions
  /\ llmInsights = <<>>
  /\ hcmds = [h \in HCmdIds |-> IdleHCmd]
  /\ mem = NewMem
  /\ clock = 0
  /\ ret = NoRet
  /\ sops = 0
  /\ mcp = NewMcp
  /\ tnow = 0
  /\ cret = NoCret
  /\ cops = 0
  /\ ticks = 0

InitOut ==
  Started([k \in CmdIds |-> IF k = 1 THEN [kind |-> "start", pc |-> "done", pos |-> NumAgents + 1,
                                           inst |-> InstOf(0, NumAgents), ov |-> FALSE, proc |-> 0]
                                     ELSE IdleCmd])

\* The same state when the start command is long over and forgotten.
InitStarted == Started([k \in CmdIds |-> IdleCmd])

StopNext ==
  \/ \E k \in CmdIds, kind \in {"start", "stop"} : IssueCmd(k, kind)
  \/ \E u \in upd : UpdDb(u)
  \/ \E u \in upd : UpdCache(u)
  \/ \E k \in CmdIds : GraceEnd(k)
  \/ \E p \in ProcIds : ProcExit(p)
  \/ \E p \in ProcIds : ProcError(p)
  \/ \E p \in ProcIds : ProcClose(p)
  \/ \E k \in CmdIds : ReadDone(k)

\* Start and stop commands arriving while the workers run.
SpecStop == InitStarted /\ [][StopNext]_vars

OutNext ==
  \/ \E p \in ProcIds, line \in Lines : WorkerWrite(p, line)
  \/ \E p \in ProcIds, n \in 1..(MaxLines * 4), rnd \in 1000..(999 + NumKeys) : StdoutData(p, n, rnd)
  \/ \E c \in ClientIds : Connect(c)
  \/ \E c \in ClientIds : SnapshotRead(c)
  \/ \E c \in ClientIds : SnapshotDone(c)

\* Running workers write to stdout, the Supervisor reads it in chunks.
SpecOut == InitOut /\ [][OutNext]_vars

ToggleNext ==
  \/ \E c \in ClientIds : Connect(c)
  \/ \E c \in ClientIds : SocketClosing(c)
  \/ \E c \in ClientIds : OnClose(c)
  \/ \E h \in HCmdIds, c \in ClientIds, id \in 0..(NumActions + 1),
        status \in {"", "enabled", "disabled", "in_progress"} : IssueToggle(h, c, id, status)
  \/ \E h \in HCmdIds, dbOk \in BOOLEAN : ToggleGot(h, dbOk)
  \/ \E h \in HCmdIds, dbOk \in BOOLEAN : ToggleUpdate(h, dbOk)
  \/ \E h \in HCmdIds : ToggleBroadcast(h)

\* The Realtime Hub handling toggle_response_action commands.
SpecToggle == Init /\ [][ToggleNext]_vars

AnalyzeNext ==
  \/ \E c \in ClientIds : Connect(c)
  \/ \E c \in ClientIds : OnClose(c)
  \/ \E valid, dbOk \in BOOLEAN, level \in {"info"} : PostLog(valid, dbOk, level)
  \/ \E h \in HCmdIds, c \in ClientIds, logId \in 0..MaxPosts : IssueAnalyze(h, c, logId)
  \/ \E h \in HCmdIds, dbOk \in BOOLEAN : AnalyzeGotLog(h, dbOk)
  \/ \E h \in HCmdIds, o \in LlmOutcomes : AnalyzeLlm(h, o)
  \/ \E h \in HCmdIds, dbOk \in BOOLEAN : AnalyzeCreate(h, dbOk)
  \/ \E h \in HCmdIds : AnalyzeBroadcast(h)

\* The Realtime Hub handling analyze_log commands.
SpecAnalyze == Init /\ [][AnalyzeNext]_vars

\* What callers submit to create and to update.
Submits == {[name |-> "n"],
            [name |-> "n", id |-> 1, createdAt |-> 0, status |-> "custom", timestamp |-> 0],
            [name |-> "n", incidentKey |-> 1000]}
StoreNext ==
  \/ \E kind \in Kinds, ins \in Submits : MemCreate(kind, ins)
  \/ \E kind \in UpdateKinds, id \in 0..(NumAgents + NumActions + MaxStoreOps),
        updates \in {[status |-> "changed"]} : MemUpdate(kind, id, updates)
  \/ \E kind \in {"alert", "incident", "responseAction"}, id \in 0..(NumActions + 1),
        updates \in {[status |-> "changed"]} : DbUpdate(kind, id, updates)
  \/ \E kind \in ListKinds, limit \in Limits : MemList(kind, limit)

\* The Event Store called directly: the in-memory store and the database store.
SpecStore == Init /\ [][StoreNext]_vars

\* The Realtime Hub: connections, their failures, and a broadcasting route.
CacheNext ==
  \/ RedisConnect
  \/ RedisClose
  \/ RedisError
  \/ RetryStrategy
  \/ \E op \in CacheOps : \E name \in Names(op), v \in CacheVals : CacheCall(op, name, v)
  \/ \E ty \in CtxTypes, v \in CacheVals, seconds \in Ttls : StoreSetEx(<<contextPrefix, ty>>, v, seconds)
  \/ \E tm \in mcp.timers : TimerFire(tm)
  \/ Advance

SpecCache == Init /\ [][CacheNext]_vars

\* The tables after n valid submissions of each kind: the rows createAlert,
\* createLog, createIncident and createLlmInsight have appended.
FilledAlerts(n) ==
  [j \in 1..n |-> [id |-> j, severity |-> "low", title |-> "t", source |-> "api", status |-> "new"]]
FilledLogs(n) ==
  [j \in 1..n |-> [id |-> j, level |-> "info", message |-> <<"m">>, source |-> "api"]]
FilledIncidents(n) ==
  [j \in 1..n |-> [id |-> j, incidentKey |-> j, type |-> "t", source |-> "api", status |-> "open"]]
FilledInsights(n) ==
  [j \in 1..n |-> [id |-> j, analysis |-> "a", severity |-> "medium", recommendation |-> "r",
                   logId |-> j]]

\* The hub with a store filled to just under, or just over, the page sizes of
\* the snapshot.
InitFilled ==
  \E over \in BOOLEAN :
    LET d == IF over THEN 1 ELSE -1 IN
      InitWith(FilledAlerts(AlertPage + d), FilledLogs(LogPage + d),
               FilledIncidents(IncidentPage + d), FilledInsights(InsightPage + d))

SnapNext ==
  \/ \E c \in ClientIds : Connect(c)
  \/ \E c \in ClientIds : SnapshotRead(c)
  \/ \E c \in ClientIds : SnapshotDone(c)
  \/ \E c \in ClientIds : SocketClosing(c)
  \/ \E valid, dbOk \in BOOLEAN : PostAlert(valid, dbOk, "critical")
  \/ \E valid, dbOk \in BOOLEAN : PostLog(valid, dbOk, "info")

SpecSnap == InitFilled /\ [][SnapNext]_vars

MsgNext ==
  \/ \E c \in ClientIds : Connect(c)
  \/ \E c \in ClientIds : OnClose(c)
  \/ \E h \in HCmdIds, k \in CmdIds, c \in ClientIds,
        type \in {"toggle_response_action"} \cup UnknownTypes,
        id \in 0..NumActions, status \in {"", "disabled"} : OnMessage(h, k, c, type, id, status)
  \/ \E h \in HCmdIds, dbOk \in BOOLEAN : ToggleGot(h, dbOk)
  \/ \E h \in HCmdIds, dbOk \in BOOLEAN : ToggleUpdate(h, dbOk)
  \/ \E h \in HCmdIds : ToggleBroadcast(h)

\* The Realtime Hub receiving messages of known and unknown types.
SpecMsg == Init /\ [][MsgNext]_vars

SpecHub == Init /\ [][HubNext]_vars

\* ------------------------------------------------------------------ claims
ProcsOf(a) == {p \in 1..Len(procs) : AgentOfInst(procs[p].inst) = a}
LiveProcsOf(a) == {p \in ProcsOf(a) : procs[p].state = "running"}
Count(seq, type) == Cardinality({j \in 1..Len(seq) : seq[j].type = type})

\* C1: in every reachable state each Agent id has at most one live worker
\* process, also when start requests for it overlap.
C1_OneLiveWorkerPerAgent ==
  \A a \in AgentIds : Cardinality(LiveProcsOf(a)) <= 1

\* C2: start() on a PythonAgent that is running spawns nothing and writes no
\* status: no step spawns a process for an object that is running, every
\* 'active' status write is issued together with a spawn, and a start command
\* that finds every Agent running goes straight to its end leaving processes,
\* flags, status writes and both stores as they were.
C2_StartOnRunningIsNoOp ==
  [][ /\ \A i \in Insts : isRunning[i] =>
            \A p \in (Len(procs) + 1)..Len(procs') : procs'[p].inst # i
      /\ \A u \in upd' \ upd : (u.stage = "db" /\ u.status = "active") =>
            /\ Len(procs') = Len(procs) + 1
            /\ AgentOfInst(procs'[Len(procs')].inst) = u.agent
      /\ \A k \in CmdIds :
            ( /\ cmds[k].pc = "idle" /\ cmds'[k].kind = "start"
              /\ ~MapEmpty(activeAgents)
              /\ \A a \in AgentIds : isRunning[activeAgents[a]] )
            => /\ cmds'[k].pc = "read"
               /\ UNCHANGED <<procs, upd, isRunning, process, dbStatus, cacheStatus>>
    ]_vars

\* C2 witness: a start command found its Agent running and had nothing to do,
\* while the one process of the earlier start is alive.
C2_Witness ==
  \E k \in CmdIds :
    /\ cmds[k].kind = "start" /\ cmds[k].pc = "read" /\ cmds[k].inst = NoInst
    /\ ~MapEmpty(activeAgents)
    /\ Len(procs) = 1 /\ procs[1].state = "running"
    /\ isRunning[procs[1].inst]

\* Nothing of Agent a is pending: no command in flight, no status write in
\* flight, and every process event of its workers has been handled.
Quiet(a) ==
  /\ \A k \in CmdIds : ~InFlight(k)
  /\ \A u \in upd : u.agent # a
  /\ \A p \in ProcsOf(a) : procs[p].state = "closed"

\* C3: after stop() on a running Agent returned success and the worker's
\* pending process events are handled, the Agent is not running, no worker of
\* it is alive and its stored status is 'stopped'.
C3_StoppedAfterStop ==
  \A a \in AgentIds :
    (lastOp[a] = "stop" /\ Quiet(a)) =>
      /\ \A i \in Insts : AgentOfInst(i) = a => ~isRunning[i]
      /\ LiveProcsOf(a) = {}
      /\ dbStatus[a] = "stopped"

\* C4: the handler of a worker's 'close' or 'error' event marks the Agent not
\* running and issues the status write 'error', which stores 'error' when it
\* takes effect; a process is spawned only by the start() call of a command.
C4_CrashRecordedNoRestart ==
  [][ /\ \A p \in 1..Len(procs) :
            (procs[p].state \in {"failed", "exited"} /\ procs'[p].state # procs[p].state)
            => /\ ~isRunning'[procs[p].inst]
               /\ \E u \in upd' \ upd :
                    /\ u.agent = AgentOfInst(procs[p].inst) /\ u.p = p
                    /\ u.stage = "db" /\ u.status = "error"
               /\ Len(procs') = Len(procs)
      /\ \A u \in upd : (u.p # 0 /\ u.stage = "db" /\ u \notin upd')
            => dbStatus'[u.agent] = "error"
      /\ Len(procs') > Len(procs) =>
            \E k \in CmdIds : /\ cmds'[k].kind = "start" /\ cmds'[k].pc = "upd_wait"
                              /\ cmds[k].pc # "upd_wait" \/ cmds[k].pos # cmds'[k].pos
    ]_vars

\* C4 witness: a worker ended, its 'close' handler ran, the Agent is marked
\* not running and the stored status is 'error'.
C4_Witness ==
  \E p \in 1..Len(procs) :
    /\ procs[p].state = "closed"
    /\ ~isRunning[procs[p].inst]
    /\ dbStatus[AgentOfInst(procs[p].inst)] = "error"
    /\ \A u \in upd : u.p # p

\* C6 as claimed: two overlapping start commands, both finished, have produced
\* exactly one agents_status broadcast.
C6_OneBroadcastForTwoStarts ==
  \A j, k \in CmdIds :
    ( /\ j # k /\ cmds[k].ov
      /\ cmds[j].kind = "start" /\ cmds[k].kind = "start"
      /\ cmds[j].pc = "done" /\ cmds[k].pc = "done" )
    => Count(bcastLog, "agents_status") = 1

\* C6 amended: every start/stop command whose handler ran to its end has
\* issued exactly one agents_status broadcast, and no other command has
\* issued any: two overlapping start commands produce two broadcasts.
C6_OneBroadcastPerCommand ==
  Count(bcastLog, "agents_status") = Cardinality({k \in CmdIds : cmds[k].pc = "done"})

\* C6 witness: two overlapping start commands have finished and two
\* agents_status broadcasts were issued.
C6_Witness ==
  \E j, k \in CmdIds :
    /\ j # k /\ cmds[k].ov
    /\ cmds[j].kind = "start" /\ cmds[k].kind = "start"
    /\ cmds[j].pc = "done" /\ cmds[k].pc = "done"
    /\ Count(bcastLog, "agents_status") = 2

\* C9: a broadcast hands the message to exactly the clients of wsClients that
\* are OPEN, whatever the state of the other clients, and the 'close' event of
\* a connection removes that connection, and only it, from wsClients.
C9_BroadcastBestEffort ==
  [][ /\ Len(bcastLog') = Len(bcastLog) + 1 =>
            \A c \in ClientIds :
               sent'[c] = IF InClients(wsClients, c) /\ readyState[c] = "OPEN"
                          THEN Append(sent[c], bcastLog'[Len(bcastLog')])
                          ELSE sent[c]
      /\ \A c \in ClientIds :
            (readyState[c] # "CLOSED" /\ readyState'[c] = "CLOSED")
            => wsClients' = SelectSeq(wsClients, LAMBDA d : d # c)
    ]_vars

\* C9 witness: a client that was in wsClients and not OPEN was skipped by the
\* last broadcast, and an OPEN client behind it in wsClients was sent it.
C9_Witness ==
  /\ Len(wsClients) = 2 /\ bcastLog # <<>>
  /\ readyState[wsClients[1]] = "CLOSING" /\ readyState[wsClients[2]] = "OPEN"
  /\ \A j \in 1..Len(sent[wsClients[1]]) : sent[wsClients[1]][j] # bcastLog[Len(bcastLog)]
  /\ sent[wsClients[2]] # <<>>
  /\ sent[wsClients[2]][Len(sent[wsClients[2]])] = bcastLog[Len(bcastLog)]

\* C10: no failure of one client connection or of one worker raises an error
\* that leaves its handler.
C10_NoErrorEscapes == ~escaped

\* The state of the Supervisor in InitOut is one Spec reaches.
InitOutReached ==
  /\ moduleInit = "done" /\ activeAgents = Populate(0)
  /\ isRunning = [i \in Insts |-> i <= NumAgents]
  /\ process = [i \in Insts |-> IF i <= NumAgents THEN i ELSE 0]
  /\ procs = [a \in AgentIds |-> [inst |-> InstOf(0, a), state |-> "running"]]
  /\ cmds[1] = [kind |-> "start", pc |-> "done", pos |-> NumAgents + 1,
                inst |-> InstOf(0, NumAgents), ov |-> FALSE, proc |-> 0]
  /\ \A k \in CmdIds \ {1} : cmds[k] = IdleCmd
  /\ upd = {}
  /\ dbStatus = [a \in AgentIds |-> "active"] /\ cacheStatus = [a \in AgentIds |-> "active"]
  /\ lastOp = [a \in AgentIds |-> "start"]
  /\ bcastLog = <<Msg("agents_status", [agents |-> [a \in AgentIds |-> "active"]])>>

\* The chunk the Supervisor took from worker p's stdout in this step.
ChunkOf(p) == SubSeq(consumed'[p], Len(consumed[p]) + 1, Len(consumed'[p]))
\* chunk is exactly one complete non-empty line, and `before` ends at a line end.
OneLine(before, chunk) ==
  /\ before = <<>> \/ before[Len(before)] = "\n"
  /\ Len(chunk) >= 2
  /\ chunk[Len(chunk)] = "\n"
  /\ NumLines(chunk) = 1
LineOf(chunk) == SubSeq(chunk, 1, Len(chunk) - 1)

\* C5: a worker stdout line that is a structured object of type alert adds
\* exactly one Alert with the given severity and status new to the Event
\* Store, and new_alert carrying that Alert is sent to every connected client.
C5_AlertLineStoredAndBroadcast ==
  [][\A p \in ProcIds :
       (/\ consumed'[p] # consumed[p]
        /\ OneLine(consumed[p], ChunkOf(p))
        /\ JsonParses(ChunkOf(p))
        /\ JsonParse(ChunkOf(p)).type = "alert"
        /\ Has(JsonParse(ChunkOf(p)), "severity"))
       => /\ Len(alerts') = Len(alerts) + 1
          /\ SubSeq(alerts', 1, Len(alerts)) = alerts
          /\ alerts'[Len(alerts')].severity = JsonParse(ChunkOf(p)).severity
          /\ alerts'[Len(alerts')].status = "new"
          /\ \A j \in 1..Len(wsClients) :
               readyState[wsClients[j]] = "OPEN"
               => sent'[wsClients[j]] =
                    Append(sent[wsClients[j]], Msg("new_alert", alerts'[Len(alerts')]))]_vars

\* The records of a table without the fields the store assigns itself.
Strip(seq) ==
  [j \in 1..Len(seq) |-> [f \in (DOMAIN seq[j]) \ {"id", "incidentKey"} |-> seq[j][f]]]
\* What the records of st attributed to agentName hold.
Content(st, agentName) ==
  LET From(r) == r.source = agentName
  IN [alerts |-> Strip(SelectSeq(st.alerts, From)), logs |-> Strip(SelectSeq(st.logs, From)),
      incidents |-> Strip(SelectSeq(st.incidents, From))]
\* The store after the lines of s were delivered exactly one line per chunk.
RECURSIVE LineByLine(_, _, _)
LineByLine(st, agentName, s) ==
  IF s = <<>> THEN st
  ELSE LET n == CHOOSE j \in 1..Len(s) : s[j] = "\n" /\ \A h \in 1..(j - 1) : s[h] # "\n"
       IN LineByLine(handleAgentOutput(st, agentName, SubSeq(s, 1, n), 1000), agentName,
                     SubSeq(s, n + 1, Len(s)))

\* C7: the Event Store records created from a worker's stdout are the same
\* for every split of the stream into chunks as for one line per chunk.
C7_ChunkingIndependent ==
  \A p \in 1..Len(procs) :
    (consumed[p] # <<>> /\ consumed[p][Len(consumed[p])] = "\n")
    => LET name == AgentName(AgentOfInst(procs[p].inst))
       IN Content(Store, name) = Content(LineByLine(NewStore, name, consumed[p]), name)

Records == Len(logs) + Len(alerts) + Len(incidents)
\* C8: every non-empty worker stdout line creates exactly one record: the Log,
\* Alert or Incident for a structured line of that type, and for every other
\* line an info Log of that Agent holding the line verbatim.
C8_OneRecordPerLine ==
  [][\A p \in ProcIds :
       (consumed'[p] # consumed[p] /\ OneLine(consumed[p], ChunkOf(p)))
       => LET chunk == ChunkOf(p)
              kind == IF JsonParses(chunk) THEN JsonParse(chunk).type ELSE "none"
          IN /\ Records' = Records + 1
             /\ kind = "log" => Len(logs') = Len(logs) + 1
             /\ kind = "alert" => Len(alerts') = Len(alerts) + 1
             /\ kind = "incident" => Len(incidents') = Len(incidents) + 1
             /\ kind \notin {"log", "alert", "incident"}
                => /\ Len(logs') = Len(logs) + 1
                   /\ logs'[Len(logs')].level = "info"
                   /\ trim(logs'[Len(logs')].message) = LineOf(chunk)
                   /\ logs'[Len(logs')].source
                        = AgentName(AgentOfInst(procs[p].inst))]_vars

\* The hub-broadcast events among the messages of one connection (the
\* snapshot and its error reply are sent to that connection alone).
Broadcasts(seq) == SelectSeq(seq, LAMBDA m : m.type \notin {"initial_data", "error"})
RECURSIVE IsSubseq(_, _)
IsSubseq(a, b) ==
  IF a = <<>> THEN TRUE
  ELSE IF b = <<>> THEN FALSE
  ELSE IF Head(a) = Head(b) THEN IsSubseq(Tail(a), Tail(b))
  ELSE IsSubseq(a, Tail(b))

\* C11: each client receives the hub's broadcasts in the order the hub
\* issued them: what a client got is a subsequence of the issue order.
C11_BroadcastOrder ==
  \A c \in ClientIds : IsSubseq(Broadcasts(sent[c]), bcastLog)

\* C11 witness: a client received two different broadcasts, and another
\* client received only the later one.
C11_Witness ==
  \E c, d \in ClientIds :
    /\ Len(Broadcasts(sent[c])) = 2
    /\ Broadcasts(sent[c])[1] # Broadcasts(sent[c])[2]
    /\ Broadcasts(sent[d]) = <<bcastLog[2]>>

\* C12: a toggle_response_action command {id, status} for an existing
\* ResponseAction sets the status of that record and of no other, and is
\* followed by one response_action_updated broadcast carrying the updated
\* record to every connected client; only a command whose action does not
\* exist is dropped after the lookup.
C12_ToggleSetsAndBroadcasts ==
  /\ [](Count(bcastLog, "response_action_updated")
          = Cardinality({h \in HCmdIds : hcmds[h].kind = "toggle" /\ hcmds[h].pc = "done"
                                          /\ hcmds[h].res # NoRes}))
  /\ [][\A h \in HCmdIds :
          /\ (hcmds[h].pc = "get" /\ hcmds'[h].pc = "done")
             => \A j \in 1..Len(responseActions) : responseActions[j].id # hcmds[h].id
          /\ (hcmds[h].pc = "update" /\ hcmds'[h].pc = "bcast")
             => /\ Len(responseActions') = Len(responseActions)
                /\ \A j \in 1..Len(responseActions) :
                     responseActions'[j] =
                       IF responseActions[j].id = hcmds[h].id
                       THEN [responseActions[j] EXCEPT !.status = hcmds[h].status]
                       ELSE responseActions[j]
                /\ hcmds'[h].res = [id |-> hcmds[h].id, status |-> hcmds[h].status]
                /\ UNCHANGED <<storeVars, llmInsights, dbStatus>>
          /\ (hcmds[h].pc = "bcast" /\ hcmds'[h].pc = "done")
             => /\ bcastLog' = Append(bcastLog, Msg("response_action_updated", hcmds[h].res))
                /\ \A j \in 1..Len(wsClients) :
                     readyState[wsClients[j]] = "OPEN"
                     => sent'[wsClients[j]] = Append(sent[wsClients[j]],
                                                     Msg("response_action_updated", hcmds[h].res))
                /\ UNCHANGED responseActions]_vars

\* C12 witness: a toggle of the enabled action 1 to disabled is done, action
\* 2 is as seeded, and two connected clients both got the event.
C12_Witness ==
  \E h \in HCmdIds :
    /\ hcmds[h].kind = "toggle" /\ hcmds[h].pc = "done"
    /\ hcmds[h].res = [id |-> 1, status |-> "disabled"]
    /\ responseActions[1].status = "disabled"
    /\ responseActions[2] = SeedActions[2]
    /\ Len(wsClients) = 2
    /\ \A c \in ClientIds : sent[c] = <<Msg("response_action_updated", hcmds[h].res)>>

\* C13: when the classifier call fails while analyze_log handles an existing
\* Log, the call still returns (no exception reaches the handler) with the
\* fixed default, exactly one Insight with severity medium and the placeholder
\* analysis is created, and it is broadcast as new_insight.
C13_ClassifierFailureDefault ==
  /\ [](Len(llmInsights)
          = Cardinality({h \in HCmdIds : hcmds[h].kind = "analyze" /\ hcmds[h].pc \in {"bcast", "done"}
                                          /\ hcmds[h].res # NoRes}))
  /\ [][\A h \in HCmdIds :
          (hcmds[h].kind = "analyze" /\ LlmThrows(hcmds'[h].status))
          => /\ hcmds[h].pc = "llm" /\ hcmds'[h].pc # "llm"
                => /\ hcmds'[h].pc = "create"
                   /\ hcmds'[h].res.severity = "medium"
                   /\ hcmds'[h].res.confidence = 0
                   /\ hcmds'[h].res.analysis = LlmFallback.analysis
                   /\ ~escaped'
             /\ hcmds[h].pc = "create" /\ hcmds'[h].pc = "bcast"
                => /\ Len(llmInsights') = Len(llmInsights) + 1
                   /\ SubSeq(llmInsights', 1, Len(llmInsights)) = llmInsights
                   /\ llmInsights'[Len(llmInsights')].severity = "medium"
                   /\ llmInsights'[Len(llmInsights')].analysis
                        = "Failed to analyze threat with LLM. API may be unavailable."
                   /\ llmInsights'[Len(llmInsights')].logId = hcmds[h].id
                   /\ hcmds'[h].res = llmInsights'[Len(llmInsights')]
             /\ hcmds[h].pc = "bcast" /\ hcmds'[h].pc = "done"
                => /\ bcastLog' = Append(bcastLog, Msg("new_insight", hcmds[h].res))
                   /\ \A j \in 1..Len(wsClients) :
                        readyState[wsClients[j]] = "OPEN"
                        => sent'[wsClients[j]] = Append(sent[wsClients[j]],
                                                        Msg("new_insight", hcmds[h].res))]_vars

\* C13 witness: an analyze_log whose classifier request was rejected is done
\* and a connected client holds its new_insight.
C13_Witness ==
  \E h \in HCmdIds, c \in ClientIds :
    /\ hcmds[h].kind = "analyze" /\ hcmds[h].pc = "done" /\ hcmds[h].status = "reject"
    /\ Len(llmInsights) = 1
    /\ llmInsights[1].severity = "medium"
    /\ sent[c] # <<>>
    /\ sent[c][Len(sent[c])] = Msg("new_insight", llmInsights[1])

\* Command k, a stop command, calls stop() on the PythonAgent of Agent a in this step.
StopCalled(k, a) ==
  /\ cmds'[k] # cmds[k]
  /\ cmds'[k].kind = "stop"
  /\ cmds'[k].pc \in {"grace", "read"}
  /\ (IF cmds[k].pc = "idle" THEN 0 ELSE cmds[k].pos) < a
  /\ a <= cmds'[k].pos
  /\ activeAgents[a] # NoInst

\* C14: stop() on a PythonAgent that is not running is a no-op: no signal is
\* sent and no timer awaited, the object and every process are left as they
\* are, no status write for the Agent is issued, and the loop goes on.
C14_StopOnStoppedIsNoOp ==
  [][\A k \in CmdIds, a \in AgentIds :
       (StopCalled(k, a) /\ (~isRunning[activeAgents[a]] \/ process[activeAgents[a]] = 0))
       => /\ ~(cmds'[k].pc = "grace" /\ cmds'[k].pos = a)
          /\ isRunning'[activeAgents[a]] = isRunning[activeAgents[a]]
          /\ process'[activeAgents[a]] = process[activeAgents[a]]
          /\ procs' = procs
          /\ {u \in upd' \ upd : u.agent = a} = {}
          /\ dbStatus'[a] = dbStatus[a]
          /\ cacheStatus'[a] = cacheStatus[a]
          /\ lastOp'[a] = lastOp[a]]_vars

\* C14 witness: a first stop command stopped the worker and is done, a second
\* stop command found the Agent stopped, did nothing and is done.
C14_Witness ==
  /\ cmds[1].kind = "stop" /\ cmds[1].pc = "done" /\ cmds[1].inst # NoInst
  /\ cmds[2].kind = "stop" /\ cmds[2].pc = "done" /\ cmds[2].inst = NoInst
  /\ ~cmds[2].ov
  /\ \A a \in AgentIds : lastOp[a] = "stop" /\ dbStatus[a] = "stopped"

AlertStatus == {"new", "in_progress", "resolved"}
IncidentStatus == {"open", "in_progress", "contained", "closed"}
ResponseActionStatus == {"enabled", "disabled", "pending"}

DbTable(kind) ==
  CASE kind = "alert" -> alerts [] kind = "incident" -> incidents [] OTHER -> responseActions

\* C16: update(id, fields) on an id the store does not hold returns absent,
\* raises nothing, creates no record and modifies none, for every entity kind
\* of the in-memory store and of the database store.
C16_UpdateMissingIsAbsent ==
  [][(sops' = sops + 1 /\ ret'.op \in {"update", "dbupdate"}
      /\ IF ret'.op = "update" THEN ret'.id \notin DOMAIN mem.tables[ret'.kind]
                               ELSE \A j \in 1..Len(DbTable(ret'.kind)) :
                                      DbTable(ret'.kind)[j].id # ret'.id)
     => /\ ret'.value = Absent
        /\ mem' = mem
        /\ UNCHANGED <<storeVars, responseActions, llmInsights, dbStatus>>
        /\ ~escaped']_vars

\* C16 witness: after a create, updateAlert was called with the id of an
\* existing Agent, which no Alert has, and returned absent.
C16_Witness ==
  /\ ret.op = "update" /\ ret.kind = "alert"
  /\ ret.id \in DOMAIN mem.tables["agent"]
  /\ ret.value = Absent
  /\ mem.currentId > NumAgents + NumActions + 1

\* C17: after any sequence of create calls no two records of a kind share an
\* identity, and the identity and creation time of each created record are
\* the ones the server assigned, whatever id or createdAt was submitted.
C17_ServerAssignedIdentity ==
  /\ [](\A kind \in Kinds :
          /\ \A id \in DOMAIN mem.tables[kind] : mem.tables[kind][id].id = id
          /\ \A id \in DOMAIN mem.tables[kind] : id < mem.currentId)
  /\ [][(sops' = sops + 1 /\ ret'.op = "create")
        => /\ ret'.value.id = mem.currentId
           /\ ret'.value.createdAt = clock'
           /\ \A kind \in Kinds : ret'.value.id \notin DOMAIN mem.tables[kind]
           /\ DOMAIN mem'.tables[ret'.kind] = (DOMAIN mem.tables[ret'.kind]) \cup {ret'.value.id}
           /\ mem'.tables[ret'.kind][ret'.value.id] = ret'.value
           /\ \A kind \in Kinds : \A id \in DOMAIN mem.tables[kind] :
                mem'.tables[kind][id] = mem.tables[kind][id]]_vars

\* C17 witness: two Alerts were created from submissions that both carried
\* id 1 and createdAt 0; they have different identities and later times.
C17_Witness ==
  /\ ret.op = "create" /\ ret.kind = "alert"
  /\ Cardinality(DOMAIN mem.tables["alert"]) = 2
  /\ \A id \in DOMAIN mem.tables["alert"] :
       /\ mem.tables["alert"][id].status = "custom"
       /\ mem.tables["alert"][id].id = id /\ id # 1
       /\ mem.tables["alert"][id].createdAt > 0

\* C18: while the cache's backing connection is not established, every Context
\* Cache operation returns at once with the empty result and leaves the cache
\* as it was.
C18_NotEstablishedIsNoOp ==
  [][(cops' = cops + 1 /\ ~cret'.established)
       => (cret'.immediate /\ cret'.value = {} /\ mcp' = mcp)]_vars

\* C19: a get issued once the time to live of the stored value has run out (at
\* once, when it was stored with 0 seconds) returns absent; no agent-status
\* entry is ever removed by expiry.
C19_ExpiredIsAbsent ==
  /\ [][(cops' = cops + 1 /\ cret'.op = "getContext"
          /\ \E d \in mcp.deadline[<<contextPrefix, cret'.name>>] : d <= tnow)
         => cret'.value = {}]_vars
  /\ [][\A k \in CacheKeys :
           (k[1] = agentStatusPrefix /\ mcp.store[k] # "nil" /\ mcp'.store[k] = "nil")
             => mcp'.useMemoryFallback # mcp.useMemoryFallback]_vars

Snapshots(c) == {j \in 1..Len(sent[c]) : sent[c][j].type = "initial_data"}
\* list is what `ORDER BY timestamp DESC LIMIT n` gave at some moment of tbl
PageOf(list, tbl, n) ==
  /\ Len(list) <= n
  /\ \E k \in 0..Len(tbl) : list = Recent(SubSeq(tbl, 1, k), n)
SnapshotContent(d) ==
  /\ DOMAIN d.agents = AgentIds
  /\ PageOf(d.alerts, alerts, AlertPage)
  /\ PageOf(d.incidents, incidents, IncidentPage)
  /\ PageOf(d.llmInsights, llmInsights, InsightPage)
  /\ PageOf(d.logs, logs, LogPage)

\* C20 (as stated): every connection whose sendInitialData has run to its end
\* has received exactly one initial_data snapshot, with all Agents and at most
\* the 10 most recent Alerts, Incidents and Insights and the 20 most recent Logs.
C20_ExactlyOneSnapshot ==
  \A c \in ClientIds :
    /\ snap[c] = "done" => Cardinality(Snapshots(c)) = 1
    /\ \A j \in Snapshots(c) : SnapshotContent(sent[c][j].data)

\* C20 (amended): a connection receives at most one initial_data snapshot, and
\* exactly one when the storage reads succeeded and the socket is open; a
\* failed read gives none.  A snapshot holds all Agents and, for each kind,
\* the page of most recent records as read: at most 10 Alerts, Incidents and
\* Insights and 20 Logs.
C20_OneSnapshotWhenReadable ==
  \A c \in ClientIds :
    /\ Cardinality(Snapshots(c)) <= 1
    /\ (snap[c] = "done" /\ snapData[c].ok /\ readyState[c] = "OPEN") => Cardinality(Snapshots(c)) = 1
    /\ (snap[c] = "done" /\ ~snapData[c].ok) => Snapshots(c) = {}
    /\ snap[c] # "done" => Snapshots(c) = {}
    /\ \A j \in Snapshots(c) : SnapshotContent(sent[c][j].data)

\* a snapshot was sent from a store holding more Alerts than a page, and
\* another Alert was stored after the reads
C20_Witness ==
  \E c \in ClientIds : \E j \in Snapshots(c) :
    /\ Len(sent[c][j].data.alerts) = AlertPage
    /\ Len(sent[c][j].data.logs) = LogPage
    /\ Len(alerts) > AlertPage
    /\ sent[c][j].data.alerts # Recent(alerts, AlertPage)

\* C21: a client message whose type is none of the four commands ends its
\* handler at once and changes nothing: the Event Store, the Supervisor state
\* and the connected-client set stay as they are, nothing is sent to any
\* client, and the connection keeps accepting messages.
C21_UnknownTypeIgnored ==
  [][\A h \in HCmdIds, k \in CmdIds, c \in ClientIds, type \in UnknownTypes,
        id \in 0..NumActions, status \in {"", "disabled"} :
       OnMessage(h, k, c, type, id, status)
         => /\ hcmds'[h].pc = "done" /\ hcmds'[h].res = NoRes
            /\ UNCHANGED <<storeVars, responseActions, llmInsights, supVars>>
            /\ UNCHANGED <<wsClients, readyState, sent, bcastLog, escaped>>]_vars

\* C21 witness: the first message received had an unknown type, and the
\* toggle received after it was carried out and broadcast to the client.
C21_Witness ==
  /\ hcmds[1].kind = "ignored"
  /\ hcmds[2].kind = "toggle" /\ hcmds[2].pc = "done"
  /\ hcmds[2].res = [id |-> 1, status |-> "disabled"]
  /\ responseActions[1].status = "disabled"
  /\ sent[1] = <<Msg("response_action_updated", hcmds[2].res)>>

\* C22: the cache replaces its client by the in-process fallback at most
\* once, only when the reconnect attempts have passed their ceiling, and once
\* on the fallback it stays on it.
C22_FallbackOnlyAfterRetries ==
  /\ [](mcp.commits <= 1)
  /\ [][(~mcp.useMemoryFallback /\ mcp'.useMemoryFallback) => mcp'.retries > RetryCeiling]_vars
  /\ [][mcp.useMemoryFallback => mcp'.useMemoryFallback]_vars

\* list is the n newest of all, newest first
NewestFirst(list, all, n) ==
  /\ Len(list) = (IF n < Len(all) THEN n ELSE Len(all))
  /\ \A j \in 1..(Len(list) - 1) : list[j].timestamp >= list[j + 1].timestamp
  /\ \A j \in 1..Len(list) : \E i \in 1..Len(all) : all[i] = list[j]
  /\ \A j, i \in 1..Len(list) : list[j].id = list[i].id => j = i
  /\ \A i \in 1..Len(all) :
       (\A j \in 1..Len(list) : list[j].id # all[i].id)
         => \A j \in 1..Len(list) : list[j].timestamp >= all[i].timestamp

\* C23: a list call with a limit returns at most limit records, the newest by
\* timestamp, newest first; a list call without a limit returns all records
\* in insertion order.
C23_ListOrder ==
  [][(sops' = sops + 1 /\ ret'.op \in {"list", "listAll"})
       => LET all == InsertionOrder(mem.tables[ret'.kind])
              list == ret'.value.list
          IN IF ret'.op = "list" THEN NewestFirst(list, all, ret'.id) ELSE list = all]_vars

\* C24: no two Incidents of the Event Store, in the database store or in the
\* in-memory store, have the same key.
C24_IncidentKeysUnique ==
  /\ \A i, j \in 1..Len(incidents) :
       incidents[i].incidentKey = incidents[j].incidentKey => i = j
  /\ \A i, j \in DOMAIN mem.tables["incident"] :
       LET a == mem.tables["incident"][i]
           b == mem.tables["incident"][j]
       IN (Has(a, "incidentKey") /\ Has(b, "incidentKey") /\ a.incidentKey = b.incidentKey) => i = j

\* C25: the first message a connection receives is its initial_data snapshot
\* (or the error message sent in its place): no broadcast event comes before.
C25_SnapshotFirst ==
  \A c \in ClientIds :
    sent[c] # <<>> => sent[c][1].type \in {"initial_data", "error"}

\* C26: a stop call that resumes after its grace interval terminates only the
\* worker that was running when it was invoked: when the PythonAgent holds
\* another process by then (that worker exited and a start spawned a new one),
\* the resumed stop kills nothing, leaves the object running and writes no
\* `stopped` status.
C26_StopKillsOnlyItsWorker ==
  [][\A k \in CmdIds :
       (cmds[k].pc = "grace" /\ cmds'[k].pc # "grace"
          /\ process[cmds[k].inst] # cmds[k].proc)
       => /\ procs' = procs
          /\ isRunning' = isRunning
          /\ process' = process
          /\ {u \in upd' \ upd : u.status = "stopped"} = {}]_vars

\* The last command issued is stop command k: it arrived when no other command
\* was in flight and its stopAgents() has completed.
LastStopCompleted(k) ==
  /\ cmds[k].kind = "stop"
  /\ cmds[k].pc \in {"read", "done", "failed"}
  /\ ~cmds[k].ov
  /\ \A j \in CmdIds : j > k => cmds[j].pc = "idle"

\* C27: once stopAgents has completed and the pending process events are
\* handled, no worker the Supervisor ever spawned is alive.
C27_NoWorkerSurvivesStop ==
  \A k \in CmdIds :
    (LastStopCompleted(k)
       /\ \A p \in 1..Len(procs) : procs[p].state \notin {"exited", "failed"})
    => \A p \in 1..Len(procs) : procs[p].state # "running"

\* C28: whenever no status update of an Agent is in flight, the status the
\* Context Cache holds for it (once it holds one) is the status the Event
\* Store holds.
C28_CacheStatusIsStoreStatus ==
  \A a \in AgentIds :
    ((\A u \in upd : u.agent # a) /\ cacheStatus[a] # "none")
    => cacheStatus[a] = dbStatus[a]

\* C29: the handlers subscribed to a channel receive every message published
\* to it afterwards exactly once, and no message of another channel: what was
\* delivered is, publish by publish, one delivery per handler subscribed to
\* the channel of the publish, whether or not the cache switched to the
\* in-process fallback in between.
C29_SubscribersReceiveAll ==
  mcp.delivered = mcp.expected

\* C30: in the in-process fallback, the value the last storeContext wrote is
\* not removed before the time to live it was written with has elapsed: a
\* deferred deletion that a storeContext scheduled removes the value only when
\* the deadline of the value now held has come.
C30_ReadableUntilOwnTtl ==
  [][\A ty \in CtxTypes :
       LET key == <<contextPrefix, ty>> IN
       (/\ mcp.useMemoryFallback /\ mcp'.useMemoryFallback
        /\ cret.op = "storeContext" /\ cret.name = ty
        /\ mcp.store[key] # "nil" /\ mcp'.store[key] = "nil"
        /\ \A tm \in mcp.timers \ mcp'.timers : tm.due >= ContextTtl)
       => \A d \in mcp.deadline[key] : d <= tnow]_vars
====
